---- MODULE Spec2Model ----
(***************************************************************************)
(* Model of the correlation-center Telegram bot (src/index.js).            *)
(*                                                                         *)
(* A JavaScript string is modelled as a sequence of characters, each       *)
(* character a one-character TLA+ string, or "U+0060" for the grave accent *)
(* (which a TLA+ string cannot hold).  A JavaScript value is a record      *)
(* [t, s, n]: t is its type, s its characters when it is a string and n    *)
(* its value when it is a number (1 or 0 when it is true or false).        *)
(***************************************************************************)
EXTENDS Integers, Sequences, FiniteSets

VARIABLES
    args,         \* the options object buildUserMention is called with
    displayName,  \* the call's local displayName
    link,         \* the call's local link
    result,       \* the string the call returned
    called,       \* TRUE once buildUserMention has returned or thrown
    error         \* "none", or the error the call threw

mentionVars == <<args, displayName, link, result, called, error>>

VARIABLES
    disk,          \* db.json: the users object the storage last read or wrote
    users,         \* storage.db.data.users: the owners in insertion order
    pc,            \* where migrateUserMentions is: at an await, in the loop, done
    cursor,        \* the place of the three nested loops among the items visited
    anyUpdated,    \* the local anyUpdated
    chat,          \* the local chat of the item at hand
    getChatCalls,  \* the bot.telegram.getChat requests sent, oldest first
    editCalls,     \* the editMessageText and editMessageCaption requests sent
    console,       \* the lines written with console.log and console.error
    writes,        \* the number of storage.writeDB calls
    clock,         \* the time new Date() reads
    visits         \* the iterations the loops have before them, in order

migrationVars ==
    <<disk, users, pc, cursor, anyUpdated, chat, getChatCalls, editCalls, console,
      writes, clock, visits>>

\* What migrateUserMentions alone reads and writes
migrationLocals ==
    <<users, pc, cursor, anyUpdated, chat, getChatCalls, editCalls, console, writes,
      visits>>

VARIABLES
    pendingActions,  \* the object pendingActions: the type each prompted user is asked for
    handlers,        \* the updates received, oldest first, each with its handler's locals
    dbData,          \* the handler whose readDB made the object storage.db.data is now
    channel,         \* the posts made in the channel, oldest first, by message_id
    buttons          \* the inline buttons the bot has shown, each with its callback data

botVars == <<pendingActions, handlers, dbData, channel, buttons>>

vars == <<mentionVars, migrationVars, botVars>>

(***************************************************************************)
(* JavaScript values and the language's conversions                        *)
(***************************************************************************)
Undefined == [t |-> "undefined", s |-> <<>>, n |-> 0]

Null == [t |-> "null", s |-> <<>>, n |-> 0]

Str(s) == [t |-> "string", s |-> s, n |-> 0]

Num(n) == [t |-> "number", s |-> <<>>, n |-> n]

True == [t |-> "boolean", s |-> <<>>, n |-> 1]

False == [t |-> "boolean", s |-> <<>>, n |-> 0]

\* A Symbol value: it cannot be converted to a string
Symbol == [t |-> "symbol", s |-> <<>>, n |-> 0]

Digits == <<"0", "1", "2", "3", "4", "5", "6", "7", "8", "9">>

RECURSIVE NumberToString(_)
\* Number::toString for a non-negative integer: its decimal digits.
NumberToString(n) ==
    IF n < 10 THEN <<Digits[n + 1]>>
    ELSE NumberToString(n \div 10) \o <<Digits[(n % 10) + 1]>>

\* ToString, as a template literal `${v}` applies it.
ToString(v) ==
    CASE v.t = "string" -> v.s
      [] v.t = "number" -> NumberToString(v.n)
      [] v.t = "null" -> <<"n", "u", "l", "l">>
      [] v.t = "boolean" /\ v.n = 1 -> <<"t", "r", "u", "e">>
      [] v.t = "boolean" /\ v.n = 0 -> <<"f", "a", "l", "s", "e">>
      [] OTHER -> <<"u", "n", "d", "e", "f", "i", "n", "e", "d">>

\* ToString of a Symbol throws a TypeError
ToStringThrows(v) == v.t = "symbol"

\* ToBoolean, as `if (username)` and `username ? a : b` apply it.
ToBoolean(v) ==
    CASE v.t = "string" -> v.s # <<>>
      [] v.t = "number" -> v.n # 0
      [] v.t = "boolean" -> v.n = 1
      [] v.t = "symbol" -> TRUE
      [] OTHER -> FALSE

(***************************************************************************)
(* lodash                                                                  *)
(***************************************************************************)
Whitespace == {" ", "\t", "\n"}

isString(v) == v.t = "string"

RECURSIVE trimStart(_)
trimStart(s) ==
    IF s # <<>> /\ Head(s) \in Whitespace THEN trimStart(Tail(s)) ELSE s

RECURSIVE trimEnd(_)
trimEnd(s) ==
    IF s # <<>> /\ s[Len(s)] \in Whitespace
    THEN trimEnd(SubSeq(s, 1, Len(s) - 1))
    ELSE s

\* _.trim(string)
trim(s) == trimEnd(trimStart(s))

\* _.isEmpty(string)
isEmpty(s) == Len(s) = 0

RECURSIVE join(_, _)
\* _.join(array, separator): the elements' string forms, the separator between them
join(array, sep) ==
    IF array = <<>> THEN <<>>
    ELSE IF Len(array) = 1 THEN ToString(array[1])
    ELSE ToString(array[1]) \o sep \o join(Tail(array), sep)

(***************************************************************************)
(* @flla/telegram-format: the three formatters buildUserMention uses       *)
(***************************************************************************)
\* html.escape: the five markup characters become their named entities
HtmlEntity(c) ==
    CASE c = "&" -> <<"&", "a", "m", "p", ";">>
      [] c = "<" -> <<"&", "l", "t", ";">>
      [] c = ">" -> <<"&", "g", "t", ";">>
      [] c = "\"" -> <<"&", "q", "u", "o", "t", ";">>
      [] c = "'" -> <<"&", "a", "p", "o", "s", ";">>
      [] OTHER -> <<c>>

\* The UTF-16 code units that are surrogates, each written as a token, with
\* their values: a code point outside the Basic Multilingual Plane is a high
\* surrogate followed by a low one
SurrogateUnits ==
    {[unit |-> "U+D800", code |-> 55296], [unit |-> "U+D83D", code |-> 55357],
     [unit |-> "U+DBFF", code |-> 56319], [unit |-> "U+DC00", code |-> 56320],
     [unit |-> "U+DE00", code |-> 56832], [unit |-> "U+DE03", code |-> 56835],
     [unit |-> "U+DFFF", code |-> 57343]}

charCode(c) == (CHOOSE u \in SurrogateUnits : u.unit = c).code

isHighSurrogate(c) ==
    \E u \in SurrogateUnits : u.unit = c /\ u.code >= 55296 /\ u.code <= 56319

isLowSurrogate(c) ==
    \E u \in SurrogateUnits : u.unit = c /\ u.code >= 56320 /\ u.code <= 57343

\* The code point a surrogate pair encodes
codePointOf(high, low) ==
    65536 + (charCode(high) - 55296) * 1024 + (charCode(low) - 56320)

HexDigits ==
    <<"0", "1", "2", "3", "4", "5", "6", "7", "8", "9", "a", "b", "c", "d", "e", "f">>

RECURSIVE toHex(_)
\* Number::toString(16)
toHex(n) ==
    IF n < 16 THEN <<HexDigits[n + 1]>>
    ELSE toHex(n \div 16) \o <<HexDigits[(n % 16) + 1]>>

\* &#x<hex>; with at least two hexadecimal digits
numericReference(n) ==
    <<"&", "#", "x">> \o (IF n < 16 THEN <<"0">> ELSE <<>>) \o toHex(n) \o <<";">>

RECURSIVE htmlEscape(_)
\* html.escape: named entities for the markup characters, one numeric reference
\* for each code point outside the Basic Multilingual Plane
htmlEscape(text) ==
    IF text = <<>> THEN <<>>
    ELSE IF Len(text) >= 2 /\ isHighSurrogate(text[1]) /\ isLowSurrogate(text[2])
    THEN numericReference(codePointOf(text[1], text[2]))
             \o htmlEscape(SubSeq(text, 3, Len(text)))
    ELSE HtmlEntity(Head(text)) \o htmlEscape(Tail(text))

\* html.url(label, url)
htmlUrl(label, url) ==
    <<"<", "a", " ", "h", "r", "e", "f", "=", "\"">> \o url \o <<"\"", ">">>
        \o label \o <<"<", "/", "a", ">">>

\* markdown.url(label, url): a "]" of the label is dropped, nothing is escaped
mdUrl(label, url) ==
    <<"[">> \o SelectSeq(label, LAMBDA c : c # "]") \o <<"]", "(">> \o url \o <<")">>

\* The characters MarkdownV2 reserves
Mdv2Reserved ==
    {"_", "*", "[", "]", "(", ")", "~", "U+0060", ">", "#", "+", "-", "=", "|",
     "{", "}", ".", "!", "\\"}

RECURSIVE mdv2Escape(_)
\* markdownv2.escape: a backslash before every reserved character
mdv2Escape(text) ==
    IF text = <<>> THEN <<>>
    ELSE (IF Head(text) \in Mdv2Reserved THEN <<"\\", Head(text)>> ELSE <<Head(text)>>)
             \o mdv2Escape(Tail(text))

\* markdownv2.url(label, url)
mdv2Url(label, url) ==
    <<"[">> \o label \o <<"]", "(">> \o url \o <<")">>

(***************************************************************************)
(* buildUserMention                                                        *)
(***************************************************************************)
\* The string literals of the function
TMe == <<"h", "t", "t", "p", "s", ":", "/", "/", "t", ".", "m", "e", "/">>

TgUser == <<"t", "g", ":", "/", "/", "u", "s", "e", "r", "?", "i", "d", "=">>

Unknown == <<"u", "n", "k", "n", "o", "w", "n">>

\* A mapper that strips the leading white space only
trimName_StartOnly(rawName) ==
    IF isString(rawName) THEN Str(trimStart(rawName.s)) ELSE rawName

\* (rawName) => (_.isString(rawName) ? _.trim(rawName) : rawName)
trimName(rawName) == IF isString(rawName) THEN Str(trim(rawName.s)) ELSE rawName

\* A predicate that keeps every name that is given, the empty string too
keepName_Given(name) == name.t # "undefined"

\* (name) => _.isString(name) ? !_.isEmpty(name) : Boolean(name)
keepName(name) == IF isString(name) THEN ~isEmpty(name.s) ELSE ToBoolean(name)

\* A label that prefers the names to the username
displayNameOf_NamesFirst(username, first_name, last_name) ==
    LET raw == <<first_name, last_name>>
        trimmedAll == [i \in 1..Len(raw) |-> trimName(raw[i])]
        cleaned == SelectSeq(trimmedAll, keepName)
    IN  IF Len(cleaned) # 0 THEN join(cleaned, <<" ">>)
        ELSE IF ToBoolean(username) THEN <<"@">> \o ToString(username)
        ELSE Unknown

\* The label: "@" and the username, or the cleaned names, or "unknown"
displayNameOf(username, first_name, last_name) ==
    IF ToBoolean(username)
    THEN <<"@">> \o ToString(username)
    ELSE LET raw == <<first_name, last_name>>
             trimmedAll == [i \in 1..Len(raw) |-> trimName(raw[i])]
             cleaned == SelectSeq(trimmedAll, keepName)
         IN  IF Len(cleaned) # 0
             THEN join(cleaned, <<" ">>)
             ELSE Unknown

\* A link that escapes the username as the MarkdownV2 label does
linkOf_EscapedUsername(id, username) ==
    IF ToBoolean(username)
    THEN TMe \o mdv2Escape(ToString(username))
    ELSE TgUser \o ToString(id)

\* A link that takes an empty username for a username
linkOf_EmptyUsername(id, username) ==
    IF username.t # "undefined"
    THEN TMe \o ToString(username)
    ELSE TgUser \o ToString(id)

\* The link: the username's page, or the user's id
linkOf(id, username) ==
    IF ToBoolean(username)
    THEN TMe \o ToString(username)
    ELSE TgUser \o ToString(id)

\* A legacy case that escapes the label as MarkdownV2 does
markdownCase_Escaped(label, url) == mdUrl(mdv2Escape(label), url)

\* A legacy case that wraps with the MarkdownV2 formatter
markdownCase_V2Url(label, url) == mdv2Url(label, url)

\* case 'Markdown'
markdownCase(label, url) == mdUrl(label, url)

\* A MarkdownV2 case that forgets to escape the label
markdownV2Case_NoEscape(label, url) == mdv2Url(label, url)

\* A MarkdownV2 case that keeps a username label literal, as the HTML case does
markdownV2Case_LiteralUsername(label, url) ==
    IF label # <<>> /\ Head(label) = "@"
    THEN mdv2Url(label, url)
    ELSE mdv2Url(mdv2Escape(label), url)

\* case 'MarkdownV2'
markdownV2Case(label, url) == mdv2Url(mdv2Escape(label), url)

\* An HTML case that forgets to escape the label
htmlCase_NoEscape(username, label, url) == htmlUrl(label, url)

\* An HTML case that escapes a name label twice
htmlCase_EscapedTwice(username, label, url) ==
    IF ToBoolean(username)
    THEN htmlUrl(<<"@">> \o ToString(username), url)
    ELSE htmlUrl(htmlEscape(htmlEscape(label)), url)

\* An HTML case that escapes the username label as any other label
htmlCase_EscapedUsername(username, label, url) == htmlUrl(htmlEscape(label), url)

\* case 'HTML' and default
htmlCase(username, label, url) ==
    IF ToBoolean(username)
    THEN htmlUrl(<<"@">> \o ToString(username), url)
    ELSE htmlUrl(htmlEscape(label), url)

\* A switch whose default is the legacy Markdown case
switchParseMode_MarkdownDefault(parseMode, username, label, url) ==
    CASE parseMode = "HTML" -> htmlCase(username, label, url)
      [] parseMode = "MarkdownV2" -> markdownV2Case(label, url)
      [] OTHER -> markdownCase(label, url)

\* switch (parseMode)
switchParseMode(parseMode, username, label, url) ==
    CASE parseMode = "Markdown" -> markdownCase(label, url)
      [] parseMode = "MarkdownV2" -> markdownV2Case(label, url)
      [] OTHER -> htmlCase(username, label, url)

\* The destructuring default: parseMode = 'HTML' when it is not given
parseModeOf(a) == IF a.parseMode = "undefined" THEN "HTML" ELSE a.parseMode

buildUserMention(a) ==
    switchParseMode(parseModeOf(a), a.username,
                    displayNameOf(a.username, a.first_name, a.last_name),
                    linkOf(a.id, a.username))

\* A function that trims with the names' own trim method, which only a string has
throwsTypeError_NativeTrim(a) ==
    IF ToBoolean(a.username)
    THEN ToStringThrows(a.username)
    ELSE \/ ~isString(a.first_name)
         \/ ~isString(a.last_name)
         \/ ToStringThrows(a.id)

\* The call throws where it converts a value to a string that has no string form:
\* the username in the label, a kept name in the join, the id in the link
throwsTypeError(a) ==
    IF ToBoolean(a.username)
    THEN ToStringThrows(a.username)
    ELSE \/ \E name \in {trimName(a.first_name), trimName(a.last_name)} :
                keepName(name) /\ ToStringThrows(name)
         \/ ToStringThrows(a.id)

(***************************************************************************)
(* The calls explored: the options buildUserMention is called with         *)
(***************************************************************************)
MaxWsLen == 3

MaxHtmlLen == 2

MaxMdLen == 2

StringsUpTo(alphabet, k) == UNION {[1..n -> alphabet] : n \in 0..k}

\* Names with white space around and inside them
WsNames == StringsUpTo({"a", " ", "\t"}, MaxWsLen)

\* Names with the characters HTML escapes, and names that read like an entity
HtmlNames ==
    StringsUpTo({"<", ">", "&", "\"", "'", "a"}, MaxHtmlLen)
        \cup {<<"&", "l", "t", ";">>, <<"&", "a", "m", "p", ";">>}

\* Names with brackets and underscores, every reserved character alone, and the
\* name of the test "handles brackets in legacy Markdown correctly"
MdNames ==
    StringsUpTo({"[", "]", "_", "a"}, MaxMdLen) \cup {<<c>> : c \in Mdv2Reserved}
        \cup {<<"A", "[", "T", "e", "s", "t", "]", "B">>}

NameValues == {Str(s) : s \in WsNames \cup HtmlNames \cup MdNames}

FewNameValues == {Undefined, Str(<<>>), Str(<<" ">>), Str(<<"b">>)}

NamePairs ==
    (NameValues \X FewNameValues) \cup (FewNameValues \X {Str(s) : s \in WsNames})

UsernameValues == {Undefined, Str(<<>>), Str(<<"j", "_", "d">>), Str(<<"x", "&">>)}

IdNumbers == {7, 120}

IdValues == {Num(n) : n \in IdNumbers} \cup {Str(NumberToString(120))}

ParseModes == {"undefined", "HTML", "Markdown", "MarkdownV2", "XML"}

Options(id, username, names, parseMode) ==
    [id |-> id, username |-> username, first_name |-> names[1],
     last_name |-> names[2], parseMode |-> parseMode]

(***************************************************************************)
(* The state machine: a caller holds an options object and calls           *)
(* buildUserMention with it                                                *)
(***************************************************************************)
NoChat ==
    [id |-> Undefined, username |-> Undefined, first_name |-> Undefined,
     last_name |-> Undefined]

\* No update has reached the bot: nobody is prompted, and the channel is empty
NoBot ==
    /\ pendingActions = <<>>
    /\ handlers = <<>>
    /\ dbData = 0
    /\ channel = <<>>
    /\ buttons = {}

\* migrateUserMentions is not running: its call at startup is commented out
NoMigration ==
    /\ disk = <<>>
    /\ users = <<>>
    /\ pc = "idle"
    /\ cursor = 1
    /\ anyUpdated = FALSE
    /\ chat = NoChat
    /\ getChatCalls = <<>>
    /\ editCalls = <<>>
    /\ console = <<>>
    /\ writes = 0
    /\ clock = 1
    /\ visits = <<>>

Init ==
    /\ args \in {Options(id, username, names, parseMode) :
                    id \in IdValues, username \in UsernameValues,
                    names \in NamePairs, parseMode \in ParseModes}
    /\ displayName = <<>>
    /\ link = <<>>
    /\ result = <<>>
    /\ called = FALSE
    /\ error = "none"
    /\ NoMigration
    /\ NoBot

\* The call returns its string, or throws and returns nothing
CallBuildUserMention ==
    /\ ~called
    /\ IF throwsTypeError(args)
       THEN /\ error' = "TypeError"
            /\ UNCHANGED <<displayName, link, result>>
       ELSE /\ displayName' = displayNameOf(args.username, args.first_name,
                                            args.last_name)
            /\ link' = linkOf(args.id, args.username)
            /\ result' = buildUserMention(args)
            /\ UNCHANGED error
    /\ called' = TRUE
    /\ UNCHANGED <<args, migrationVars, botVars>>

Next == CallBuildUserMention

Spec == Init /\ [][Next]_vars

(***************************************************************************)
(* The same call with options of any type: absent, null, strings, numbers, *)
(* booleans and Symbols                                                    *)
(***************************************************************************)
AnyValues ==
    {Undefined, Null, Str(<<>>), Str(<<" ">>), Str(<<"a">>), Num(0), Num(5), True,
     False, Symbol}

AnyIdValues == {Undefined, Num(7), Str(<<"7">>), Symbol}

InitAnyValues ==
    /\ args \in {Options(id, username, <<first, last>>, parseMode) :
                    id \in AnyIdValues, username \in AnyValues, first \in AnyValues,
                    last \in AnyValues, parseMode \in ParseModes}
    /\ displayName = <<>>
    /\ link = <<>>
    /\ result = <<>>
    /\ called = FALSE
    /\ error = "none"
    /\ NoMigration
    /\ NoBot

SpecAnyValues == InitAnyValues /\ [][Next]_vars

(***************************************************************************)
(* The same call with names that hold emoji and other code points outside  *)
(* the Basic Multilingual Plane                                            *)
(***************************************************************************)
EmojiNames ==
    {<<"U+D83D", "U+DE00">>,
     <<"U+D83D", "U+DE00", "U+D83D", "U+DE03">>,
     <<"a", "U+D83D", "U+DE03", "<">>,
     <<"U+D800", "U+DC00">>,
     <<"U+DBFF", "U+DFFF", "_">>,
     <<"[", "U+D83D", "U+DE00", "]">>,
     <<"&", "#", "x", "U+D83D", "U+DE00", ";">>}

InitEmoji ==
    /\ args \in {Options(id, username, <<Str(first), last>>, parseMode) :
                    id \in {Num(7), Str(<<"7">>)},
                    username \in {Undefined, Str(<<>>), Str(<<"j", "_", "d">>)},
                    first \in EmojiNames,
                    last \in {Undefined, Str(<<"b">>), Str(<<"U+D83D", "U+DE03">>)},
                    parseMode \in ParseModes}
    /\ displayName = <<>>
    /\ link = <<>>
    /\ result = <<>>
    /\ called = FALSE
    /\ error = "none"
    /\ NoMigration
    /\ NoBot

SpecEmoji == InitEmoji /\ [][Next]_vars

(***************************************************************************)
(* The buildUserMention variant that takes a user object next to the       *)
(* fields: a user is undefined, null or an object [t |-> "object", id,     *)
(* username, first_name, last_name], Undefined standing for a property the *)
(* object does not have.                                                   *)
(***************************************************************************)
UserObject(id, username, first_name, last_name) ==
    [t |-> "object", id |-> id, username |-> username, first_name |-> first_name,
     last_name |-> last_name]

\* user?.field
optionalChain(user, field) ==
    IF user.t \in {"undefined", "null"} THEN Undefined ELSE user[field]

\* A merge with ||, which passes over every falsy value
nullishCoalesce_Or(param, fallback) == IF ToBoolean(param) THEN param ELSE fallback

\* param ?? fallback
nullishCoalesce(param, fallback) ==
    IF param.t \in {"undefined", "null"} THEN fallback ELSE param

\* The core fields derived from user with the inline overrides
coreFields(a) ==
    Options(nullishCoalesce(a.id, optionalChain(a.user, "id")),
            nullishCoalesce(a.username, optionalChain(a.user, "username")),
            <<nullishCoalesce(a.first_name, optionalChain(a.user, "first_name")),
              nullishCoalesce(a.last_name, optionalChain(a.user, "last_name"))>>,
            a.parseMode)

\* The variant: the body after the merge is that of buildUserMention
buildUserMentionOfUser(a) == buildUserMention(coreFields(a))

ParamIdValues == {Undefined, Null, Num(0), Num(7)}

ParamNameValues == {Undefined, Null, Str(<<>>), Str(<<"d">>)}

UserValues ==
    {Undefined, Null}
        \cup {UserObject(Num(9), username, first_name, last_name) :
                 username \in {Undefined, Str(<<"b", "o", "b">>)},
                 first_name \in {Undefined, Str(<<"F">>)},
                 last_name \in {Undefined, Str(<<"L">>)}}

InitUser ==
    /\ args \in {[user |-> user, id |-> id, username |-> username,
                  first_name |-> first_name, last_name |-> last_name,
                  parseMode |-> parseMode] :
                    user \in UserValues, id \in ParamIdValues,
                    username \in ParamNameValues, first_name \in ParamNameValues,
                    last_name \in ParamNameValues \ {Null},
                    parseMode \in {"undefined", "Markdown", "MarkdownV2"}}
    /\ displayName = <<>>
    /\ link = <<>>
    /\ result = <<>>
    /\ called = FALSE
    /\ error = "none"
    /\ NoMigration
    /\ NoBot

CallBuildUserMentionOfUser ==
    /\ ~called
    /\ displayName' = displayNameOf(coreFields(args).username,
                                    coreFields(args).first_name,
                                    coreFields(args).last_name)
    /\ link' = linkOf(coreFields(args).id, coreFields(args).username)
    /\ result' = buildUserMentionOfUser(args)
    /\ called' = TRUE
    /\ UNCHANGED <<args, error, migrationVars, botVars>>

NextUser == CallBuildUserMentionOfUser

SpecUser == InitUser /\ [][NextUser]_vars

(***************************************************************************)
(* migrateUserMentions: the store it walks                                 *)
(*                                                                         *)
(* users is the sequence of owners in the order their keys were inserted;  *)
(* an owner is [id, needs, resources] and an item a record of JavaScript   *)
(* values, Undefined standing for a property the item does not have.  The  *)
(* time stamp of an item is the instant it was written, a number standing  *)
(* for its ISO string.                                                     *)
(***************************************************************************)
MaxItems == 2

\* The keys of users in insertion order: the chat ids of two owners
OwnerIds == <<5, 3>>

Types == <<"needs", "resources">>

Places == (1..Len(OwnerIds)) \X {"needs", "resources"}

\* How an item was published: not at all (no channelMessageId, or null or 0),
\* as a text message, or as a photo with a caption
Shapes == {"null", "zero", "missing", "text", "photo"}

\* The item created k-th, as addItem leaves it
ItemOf(k, ty, shape) ==
    [description |-> Str(NumberToString(k)),
     updatedAt |-> 0,
     fileId |-> IF shape \in {"photo", "zero"} THEN Str(<<"f">>) ELSE Undefined,
     channelMessageId |->
         CASE shape = "null" -> Null
           [] shape = "zero" -> Num(0)
           [] shape = "missing" -> Undefined
           [] OTHER -> Num(k),
     requestor |-> IF ty = "needs" THEN Str(<<"o">>) ELSE Undefined,
     supplier |-> IF ty = "needs" THEN Undefined ELSE Str(<<"o">>)]

\* The items of owner u's list ty, oldest first, when item k lies at f[k][1]
ListOf(n, f, u, ty) ==
    LET ks == SelectSeq([k \in 1..n |-> k], LAMBDA k : f[k][1] = <<u, ty>>)
    IN  [j \in 1..Len(ks) |-> ItemOf(ks[j], ty, f[ks[j]][2])]

StoreOf(n, f) ==
    [u \in 1..Len(OwnerIds) |->
        [id |-> OwnerIds[u],
         needs |-> ListOf(n, f, u, "needs"),
         resources |-> ListOf(n, f, u, "resources")]]

\* Where an item may lie and how it was published: a text message in any
\* list of any owner, a photo or an unpublished item in some of the lists
Slots ==
    (Places \X {"text"})
        \cup {<<<<1, "needs">>, "photo">>, <<<<2, "resources">>, "photo">>,
               <<<<1, "needs">>, "null">>, <<<<2, "needs">>, "zero">>,
               <<<<1, "resources">>, "missing">>}

Stores == UNION {{StoreOf(n, f) : f \in [1..n -> Slots]} : n \in 0..MaxItems}

RECURSIVE SortedById(_, _)
\* The owners S of us, smallest id first
SortedById(us, S) ==
    IF S = {}
    THEN <<>>
    ELSE LET u == CHOOSE v \in S : \A w \in S : us[v].id <= us[w].id
         IN  <<u>> \o SortedById(us, S \ {u})

\* Object.entries(users): keys that are integers come first, in ascending order
ObjectEntries(us) == SortedById(us, DOMAIN us)

RECURSIVE Concat(_)
Concat(seqs) == IF seqs = <<>> THEN <<>> ELSE Head(seqs) \o Concat(Tail(seqs))

\* The iterations of for (const item of items) for one owner and one type
ItemsOf(us, u, ty) ==
    [i \in 1..Len(us[u][ty]) |-> [u |-> u, type |-> ty, i |-> i]]

\* The iterations of the three nested loops, in the order they run
Visits(us) ==
    LET entries == ObjectEntries(us)
    IN  Concat([e \in 1..Len(entries) |->
                   Concat([t \in 1..Len(Types) |-> ItemsOf(us, entries[e], Types[t])])])

itemAt(us, at) == us[at.u][at.type][at.i]

\* The loops have an item at hand
AtItem == pc = "loop" /\ cursor <= Len(visits)

position == visits[cursor]

userId == users[position.u].id

type == position.type

item == itemAt(users, position)

msgId == item.channelMessageId

(***************************************************************************)
(* migrateUserMentions: what it computes for an item                       *)
(***************************************************************************)
CHANNEL_USERNAME == <<"@", "C", "o", "r", "r", "e", "l", "a", "t", "i", "o", "n",
                      "C", "e", "n", "t", "e", "r">>

\* A test that skips an item only when it has no channelMessageId or a null one
skipped_NullOnly(it) == it.channelMessageId.t \in {"null", "undefined"}

\* if (!msgId) continue
skipped(it) == ~ToBoolean(it.channelMessageId)

mentionOf(c) ==
    buildUserMention(Options(c.id, c.username, <<c.first_name, c.last_name>>, "HTML"))

newContentOf(ty, it, mention) ==
    IF ty = "needs"
    THEN ToString(it.description)
             \o <<"\n", "\n", "<", "i", ">", "N", "e", "e", "d", " ", "o", "f", " ">>
             \o mention \o <<".", "<", "/", "i", ">">>
    ELSE ToString(it.description)
             \o <<"\n", "\n", "<", "i", ">", "R", "e", "s", "o", "u", "r", "c", "e",
                  " ", "p", "r", "o", "v", "i", "d", "e", "d", " ", "b", "y", " ">>
             \o mention \o <<".", "<", "/", "i", ">">>

\* A request that edits the text of every message, photo or not
editRequestOf_AlwaysText(ty, it, c) ==
    [method |-> "editMessageText",
     chat_id |-> CHANNEL_USERNAME,
     message_id |-> it.channelMessageId,
     content |-> newContentOf(ty, it, mentionOf(c)),
     parse_mode |-> "HTML"]

\* The edit request for an item: caption of a photo, text otherwise
editRequestOf(ty, it, c) ==
    [method |-> IF ToBoolean(it.fileId) THEN "editMessageCaption"
                ELSE "editMessageText",
     chat_id |-> CHANNEL_USERNAME,
     message_id |-> it.channelMessageId,
     content |-> newContentOf(ty, it, mentionOf(c)),
     parse_mode |-> "HTML"]

roleFieldOf(ty) == IF ty = "needs" THEN "requestor" ELSE "supplier"

\* chat.username || chat.first_name || 'unknown'
roleValueOf(c) ==
    IF ToBoolean(c.username) THEN c.username
    ELSE IF ToBoolean(c.first_name) THEN c.first_name
    ELSE Str(Unknown)

\* The item after its message was edited
migratedItem(it, ty, c, now) ==
    [it EXCEPT !.updatedAt = now, ![roleFieldOf(ty)] = roleValueOf(c)]

\* What Telegram may answer to getChat(userId)
getChatResults(id) ==
    IF id = OwnerIds[1]
    THEN {[id |-> Num(id), username |-> Str(<<"a", "_", "b">>),
           first_name |-> Str(<<"A">>), last_name |-> Undefined],
          [id |-> Num(id), username |-> Undefined,
           first_name |-> Str(<<"A", "&">>), last_name |-> Str(<<"B">>)]}
    ELSE {[id |-> Num(id), username |-> Str(<<>>), first_name |-> Undefined,
           last_name |-> Undefined]}

Chats == UNION {getChatResults(OwnerIds[u]) : u \in DOMAIN OwnerIds}

\* Why Telegram may refuse an edit
NotModified == "Bad Request: message is not modified"

EditErrors == {NotModified, "Bad Request: message to edit not found"}

Line(msg, id, m, err) == [msg |-> msg, userId |-> id, msgId |-> m, err |-> err]

(***************************************************************************)
(* migrateUserMentions: its steps, one for each stretch between two awaits *)
(***************************************************************************)
InitMigrate ==
    /\ disk \in Stores
    /\ users = <<>>
    /\ pc = "readDB"
    /\ cursor = 1
    /\ anyUpdated = FALSE
    /\ chat = NoChat
    /\ getChatCalls = <<>>
    /\ editCalls = <<>>
    /\ console = <<>>
    /\ writes = 0
    /\ clock = 1
    /\ visits = <<>>
    /\ args = Options(Undefined, Undefined, <<Undefined, Undefined>>, "undefined")
    /\ displayName = <<>>
    /\ link = <<>>
    /\ result = <<>>
    /\ called = TRUE
    /\ error = "none"
    /\ NoBot

\* await storage.readDB(), and the locals users and anyUpdated
ReadDB ==
    /\ pc = "readDB"
    /\ users' = disk
    /\ visits' = Visits(disk)
    /\ anyUpdated' = FALSE
    /\ cursor' = 1
    /\ pc' = "loop"
    /\ UNCHANGED <<disk, chat, getChatCalls, editCalls, console, writes, clock,
                   mentionVars, botVars>>

\* if (!msgId) continue
SkipItem ==
    /\ AtItem
    /\ skipped(item)
    /\ cursor' = cursor + 1
    /\ UNCHANGED <<disk, users, pc, anyUpdated, chat, getChatCalls, editCalls,
                   console, writes, clock, mentionVars, visits, botVars>>

\* A loop that sends the lookup of an item and goes on without awaiting it
CallGetChat_NoAwait ==
    /\ AtItem
    /\ ~skipped(item)
    /\ getChatCalls' = Append(getChatCalls, userId)
    /\ cursor' = cursor + 1
    /\ UNCHANGED <<disk, users, pc, anyUpdated, chat, editCalls, console, writes,
                   clock, mentionVars, visits, botVars>>

\* bot.telegram.getChat(userId) is sent
CallGetChat ==
    /\ AtItem
    /\ ~skipped(item)
    /\ getChatCalls' = Append(getChatCalls, userId)
    /\ pc' = "getChat"
    /\ UNCHANGED <<disk, users, cursor, anyUpdated, chat, editCalls, console,
                   writes, clock, mentionVars, visits, botVars>>

\* A catch without its continue: the edit is sent with the chat left undefined
GetChatFails_FallsThrough ==
    /\ pc = "getChat"
    /\ console' = Append(console, Line("Failed to fetch chat", userId, Undefined,
                                       "error"))
    /\ editCalls' = Append(editCalls, editRequestOf(type, item, chat))
    /\ pc' = "edit"
    /\ UNCHANGED <<disk, users, cursor, anyUpdated, chat, getChatCalls, writes,
                   clock, mentionVars, visits, botVars>>

\* getChat rejects: catch, console.error, continue
GetChatFails ==
    /\ pc = "getChat"
    /\ console' = Append(console, Line("Failed to fetch chat", userId, Undefined,
                                       "error"))
    /\ cursor' = cursor + 1
    /\ pc' = "loop"
    /\ UNCHANGED <<disk, users, anyUpdated, chat, getChatCalls, editCalls, writes,
                   clock, mentionVars, visits, botVars>>

\* getChat resolves to c: the mention and the content are built, the edit is sent
GetChatReturns(c) ==
    /\ pc = "getChat"
    /\ c \in getChatResults(userId)
    /\ chat' = c
    /\ editCalls' = Append(editCalls, editRequestOf(type, item, c))
    /\ pc' = "edit"
    /\ UNCHANGED <<disk, users, cursor, anyUpdated, getChatCalls, console, writes,
                   clock, mentionVars, visits, botVars>>

\* The edit resolves: the item is stamped and its role field rewritten
EditSucceeds ==
    /\ pc = "edit"
    /\ users' = [users EXCEPT ![position.u][type][position.i] =
                                  migratedItem(item, type, chat, clock)]
    /\ clock' = clock + 1
    /\ anyUpdated' = TRUE
    /\ console' = Append(console, Line("Migrated message", userId, msgId, "none"))
    /\ chat' = NoChat
    /\ cursor' = cursor + 1
    /\ pc' = "loop"
    /\ UNCHANGED <<disk, getChatCalls, editCalls, writes, mentionVars, visits, botVars>>

\* An edit without its try: a rejection leaves the function
EditFails_Rethrows(err) ==
    /\ pc = "edit"
    /\ console' = Append(console, Line("Failed to migrate message", userId, msgId,
                                       err))
    /\ chat' = NoChat
    /\ pc' = "rejected"
    /\ UNCHANGED <<disk, users, cursor, anyUpdated, getChatCalls, editCalls, writes,
                   clock, mentionVars, visits, botVars>>

\* A loop that stamps the item before it awaits the edit
EditFails_StampsItem(err) ==
    /\ pc = "edit"
    /\ users' = [users EXCEPT ![position.u][type][position.i].updatedAt = clock]
    /\ clock' = clock + 1
    /\ console' = Append(console, Line("Failed to migrate message", userId, msgId,
                                       err))
    /\ chat' = NoChat
    /\ cursor' = cursor + 1
    /\ pc' = "loop"
    /\ UNCHANGED <<disk, anyUpdated, getChatCalls, editCalls, writes, mentionVars,
                   visits, botVars>>

\* The edit rejects with err: catch, console.error, next item
EditFails(err) ==
    /\ pc = "edit"
    /\ console' = Append(console, Line("Failed to migrate message", userId, msgId,
                                       err))
    /\ chat' = NoChat
    /\ cursor' = cursor + 1
    /\ pc' = "loop"
    /\ UNCHANGED <<disk, users, anyUpdated, getChatCalls, editCalls, writes, clock,
                   mentionVars, visits, botVars>>

\* The loops are over and anyUpdated is true: await storage.writeDB()
WriteDB ==
    /\ pc = "loop"
    /\ cursor > Len(visits)
    /\ anyUpdated
    /\ disk' = users
    /\ writes' = writes + 1
    /\ console' = Append(console, Line("User mention migration: database updated",
                                       0, Undefined, "none"))
    /\ pc' = "done"
    /\ UNCHANGED <<users, cursor, anyUpdated, chat, getChatCalls, editCalls, clock,
                   mentionVars, visits, botVars>>

\* A run that writes the store whether or not an item was updated
Return_WritesAnyway ==
    /\ pc = "loop"
    /\ cursor > Len(visits)
    /\ ~anyUpdated
    /\ disk' = users
    /\ writes' = writes + 1
    /\ pc' = "done"
    /\ UNCHANGED <<users, cursor, anyUpdated, chat, getChatCalls, editCalls, console,
                   clock, mentionVars, visits, botVars>>

\* The loops are over and anyUpdated is false: the function returns
Return ==
    /\ pc = "loop"
    /\ cursor > Len(visits)
    /\ ~anyUpdated
    /\ pc' = "done"
    /\ UNCHANGED <<disk, users, cursor, anyUpdated, chat, getChatCalls, editCalls,
                   console, writes, clock, mentionVars, visits, botVars>>

NextMigrate ==
    \/ ReadDB
    \/ SkipItem
    \/ CallGetChat
    \/ GetChatFails
    \/ \E c \in Chats : GetChatReturns(c)
    \/ EditSucceeds
    \/ \E err \in EditErrors : EditFails(err)
    \/ WriteDB
    \/ Return

SpecMigrate == InitMigrate /\ [][NextMigrate]_vars

(***************************************************************************)
(* The bot's handlers.  Telegraf starts a handler for every update and     *)
(* does not wait for the handler of one update before it starts the next,  *)
(* so handlers interleave at their awaits.  The store is lowdb over        *)
(* db.json: a read makes storage.db.data a new object parsed from the      *)
(* file, and a write serialises the object storage.db.data is at the call. *)
(* A store is a function from the ids of its users to their two lists; an  *)
(* item carries the fields that decide what a handler does to the store    *)
(* and the channel, and not its description, fileId and author, which only *)
(* make the content of a post.  Times are milliseconds.                    *)
(***************************************************************************)
MaxUpdates == 2

MaxTicks == 1

itemTypes == <<"need", "resource">>

DAILY_LIMITS == [need |-> 3, resource |-> 3]

\* The clock of the model advances by half a day; the first update comes a
\* day after the stored items were created
HalfDay == 12 * 60 * 60 * 1000

FirstUpdate == 2 * HalfDay

\* The senders of updates: String(ctx.from.id) is the key of their lists
UserIds == {OwnerIds[i] : i \in 1..Len(OwnerIds)}

\* What a message carries: a text, a photo without caption, a text that
\* starts with "/", or neither text nor image (a sticker)
Messages == {"text", "photo", "command", "sticker"}

\* The updates explored: the first user is prompted and sends any message,
\* the second sends texts unprompted and /start
Prompts == {<<5, "need">>, <<5, "resource">>}

Sent == ({5} \X Messages) \cup {<<3, "text">>}

Starters == {3}

\* ctx.message.text && ctx.message.text.startsWith('/')
startsWithSlash(m) == m = "command"

\* fileId: the file_id of the photo or image document, or null
fileIdOf(m) == IF m = "photo" THEN Str(<<"f">>) ELSE Null

\* description: the trimmed caption or text, or ''
descriptionOf(m) == IF m = "text" THEN <<"d">> ELSE <<>>

\* `${type}s`
fieldKey(ty) == IF ty = "need" THEN "needs" ELSE "resources"

NoItem == [guid |-> 0, createdAt |-> 0, updatedAt |-> 0, channelMessageId |-> Undefined]

\* The item addItem builds in the handler of update h at the instant now:
\* uuidv7() is unlike any guid made before
newItem(h, now) ==
    [guid |-> h, createdAt |-> now, updatedAt |-> now, channelMessageId |-> Undefined]

\* Storage.getUserData leaves d with an entry for the user
getUserData(d, u) ==
    [v \in DOMAIN d \cup {u} |->
        IF v \in DOMAIN d THEN d[v] ELSE [needs |-> <<>>, resources |-> <<>>]]

\* user[field].push(it) on the object d
push(d, u, field, it) == [d EXCEPT ![u][field] = Append(@, it)]

\* sinceTs
sinceTs(now) == now - 24 * 60 * 60 * 1000

\* recentItems
recentItems(list, now) == SelectSeq(list, LAMBDA it : it.createdAt >= sinceTs(now))

\* A test that lets one more item in
overLimit_Strict(recent, limit) == Len(recent) > limit

\* recentItems.length >= limit
overLimit(recent, limit) == Len(recent) >= limit

\* pendingActions[u] = ty
setPending(p, u, ty) == [v \in DOMAIN p \cup {u} |-> IF v = u THEN ty ELSE p[v]]

\* delete pendingActions[u]
deletePending(p, u) == [v \in DOMAIN p \ {u} |-> p[v]]

\* const action = pendingActions[ctx.from.id]
actionOf(p, u) == IF u \in DOMAIN p THEN p[u] ELSE "undefined"

\* A handler's locals: the update's kind and sender, the type addItem was
\* called with, the await the handler is at, the length of recentItems, the
\* item, and the object its readDB made (where user points); for the handler
\* of a button also msgId and the text it answered the callback query with
Handler(kind, u, ty, at) ==
    [kind |-> kind, from |-> u, action |-> ty, pc |-> at, recent |-> 0,
     item |-> NoItem, data |-> <<>>, msgId |-> 0, answer |-> "none"]

\* An object that neither a running handler nor storage.db.data refers to is
\* gone
Release(hs, keep) ==
    [h \in DOMAIN hs |->
        IF hs[h].pc = "done" /\ h # keep THEN [hs[h] EXCEPT !.data = <<>>] ELSE hs[h]]

\* The states the updates explored arrive in: the first user has published
\* up to DAILY_LIMITS.need needs, all of them a day before, and has or has
\* not been prompted for another
StoredNeed(k) ==
    [guid |-> 0 - k, createdAt |-> 0, updatedAt |-> 0, channelMessageId |-> Num(k)]

InitialStore(n) ==
    IF n = 0
    THEN <<>>
    ELSE [u \in {5} |-> [needs |-> [k \in 1..n |-> StoredNeed(k)], resources |-> <<>>]]

InitBot ==
    /\ \E n \in 0..DAILY_LIMITS.need :
          /\ disk = InitialStore(n)
          /\ channel = [k \in 1..n |-> [guid |-> 0 - k, live |-> TRUE]]
    /\ clock = FirstUpdate
    /\ pendingActions \in {<<>>, [u \in {5} |-> "need"]}
    /\ handlers = <<>>
    /\ dbData = 0
    /\ buttons = {}
    /\ users = <<>>
    /\ pc = "idle"
    /\ cursor = 1
    /\ anyUpdated = FALSE
    /\ chat = NoChat
    /\ getChatCalls = <<>>
    /\ editCalls = <<>>
    /\ console = <<>>
    /\ writes = 0
    /\ visits = <<>>
    /\ args = Options(Undefined, Undefined, <<Undefined, Undefined>>, "undefined")
    /\ displayName = <<>>
    /\ link = <<>>
    /\ result = <<>>
    /\ called = TRUE
    /\ error = "none"

\* The object storage.db.data is when handler h calls writeDB, hs being the
\* handlers after h's last assignment
dbDataOf(hs) == hs[dbData].data

\* bot.command(type) and bot.hears(button): the prompt handlers
Prompt(u, ty) ==
    /\ Len(handlers) < MaxUpdates
    /\ pendingActions' = setPending(pendingActions, u, ty)
    /\ handlers' = Append(handlers, Handler("prompt", u, ty, "done"))
    /\ UNCHANGED <<disk, clock, dbData, channel, buttons, migrationLocals, mentionVars>>

\* A handler that takes any message for an item, prompted or not
Message_NoPendingCheck(u, m) ==
    /\ Len(handlers) < MaxUpdates
    /\ handlers' = Append(handlers, Handler("message", u, "need", "readDB"))
    /\ UNCHANGED <<disk, clock, pendingActions, dbData, channel, buttons,
                   migrationLocals, mentionVars>>

\* bot.on('message') and addItem up to its first await: next() when the
\* sender has no pending action, a prompt again when the input is a command
\* or empty, and storage.readDB() otherwise
Message(u, m) ==
    /\ Len(handlers) < MaxUpdates
    /\ LET action == actionOf(pendingActions, u)
           at == IF action = "undefined" THEN "done"
                 ELSE IF startsWithSlash(m) THEN "done"
                 ELSE IF descriptionOf(m) = <<>> /\ fileIdOf(m) = Null THEN "done"
                 ELSE "readDB"
       IN  handlers' = Append(handlers, Handler("message", u, action, at))
    /\ UNCHANGED <<disk, clock, pendingActions, dbData, channel, buttons,
                   migrationLocals, mentionVars>>

\* bot.start up to its first await
Start(u) ==
    /\ Len(handlers) < MaxUpdates
    /\ handlers' = Append(handlers, Handler("start", u, "undefined", "readDB"))
    /\ UNCHANGED <<disk, clock, pendingActions, dbData, channel, buttons,
                   migrationLocals, mentionVars>>

\* addItem after await storage.readDB(): getUserData, the limit, and either
\* the reply that refuses the item or the item and its post to the channel
AddItemReads(h) ==
    /\ h \in DOMAIN handlers
    /\ handlers[h].kind = "message"
    /\ handlers[h].pc = "readDB"
    /\ LET u == handlers[h].from
           d == getUserData(disk, u)
           recent == recentItems(d[u][fieldKey(handlers[h].action)], clock)
           refused == overLimit(recent, DAILY_LIMITS[handlers[h].action])
           mine == [handlers[h] EXCEPT
                       !.data = d,
                       !.recent = Len(recent),
                       !.pc = IF refused THEN "limitReply" ELSE "send",
                       !.item = IF refused
                                THEN NoItem
                                ELSE newItem(h, clock)]
       IN  handlers' = Release([handlers EXCEPT ![h] = mine], h)
    /\ dbData' = h
    /\ UNCHANGED <<disk, clock, pendingActions, channel, buttons, migrationLocals, mentionVars>>

\* After the reply that refuses the item: delete pendingActions[ctx.from.id]
LimitReplied(h) ==
    /\ h \in DOMAIN handlers
    /\ handlers[h].pc = "limitReply"
    /\ pendingActions' = deletePending(pendingActions, handlers[h].from)
    /\ handlers' = Release([handlers EXCEPT ![h].pc = "done"], dbData)
    /\ UNCHANGED <<disk, clock, dbData, channel, buttons, migrationLocals, mentionVars>>

\* sendPhoto or sendMessage resolves: the post is in the channel, the item
\* gets its message_id and is pushed, and storage.writeDB() is called
SendResolves(h) ==
    /\ h \in DOMAIN handlers
    /\ handlers[h].kind = "message"
    /\ handlers[h].pc = "send"
    /\ channel' = Append(channel, [guid |-> handlers[h].item.guid, live |-> TRUE])
    /\ LET it == [handlers[h].item EXCEPT !.channelMessageId = Num(Len(channel) + 1)]
           mine == [handlers[h] EXCEPT
                       !.item = it,
                       !.data = push(@, handlers[h].from,
                                     fieldKey(handlers[h].action), it),
                       !.pc = "reply"]
           hs == [handlers EXCEPT ![h] = mine]
       IN  /\ handlers' = hs
           /\ disk' = dbDataOf(hs)
    /\ UNCHANGED <<clock, pendingActions, dbData, buttons, migrationLocals, mentionVars>>

\* sendPhoto or sendMessage rejects: the catch sets channelMessageId to null,
\* the item is pushed and storage.writeDB() is called
SendRejects(h) ==
    /\ h \in DOMAIN handlers
    /\ handlers[h].kind = "message"
    /\ handlers[h].pc = "send"
    /\ LET it == [handlers[h].item EXCEPT !.channelMessageId = Null]
           mine == [handlers[h] EXCEPT
                       !.item = it,
                       !.data = push(@, handlers[h].from,
                                     fieldKey(handlers[h].action), it),
                       !.pc = "reply"]
           hs == [handlers EXCEPT ![h] = mine]
       IN  /\ handlers' = hs
           /\ disk' = dbDataOf(hs)
    /\ UNCHANGED <<clock, pendingActions, dbData, channel, buttons,
                   migrationLocals, mentionVars>>

\* After writeDB and the reply that confirms the item: delete
\* pendingActions[ctx.from.id]
AddItemReplied(h) ==
    /\ h \in DOMAIN handlers
    /\ handlers[h].kind = "message"
    /\ handlers[h].pc = "reply"
    /\ pendingActions' = deletePending(pendingActions, handlers[h].from)
    /\ handlers' = Release([handlers EXCEPT ![h].pc = "done"], dbData)
    /\ UNCHANGED <<disk, clock, dbData, channel, buttons, migrationLocals, mentionVars>>

\* bot.start after await storage.readDB(): getUserData and storage.writeDB()
StartReads(h) ==
    /\ h \in DOMAIN handlers
    /\ handlers[h].kind = "start"
    /\ handlers[h].pc = "readDB"
    /\ LET d == getUserData(disk, handlers[h].from)
       IN  /\ handlers' = Release([handlers EXCEPT ![h].data = d, ![h].pc = "done"], h)
           /\ disk' = d
    /\ dbData' = h
    /\ UNCHANGED <<clock, pendingActions, channel, buttons, migrationLocals, mentionVars>>

\* Time passes
Tick ==
    /\ clock < FirstUpdate + MaxTicks * HalfDay
    /\ clock' = clock + HalfDay
    /\ UNCHANGED <<disk, botVars, migrationLocals, mentionVars>>

NextBot ==
    \/ \E p \in Prompts : Prompt(p[1], p[2])
    \/ \E s \in Sent : Message(s[1], s[2])
    \/ \E u \in Starters : Start(u)
    \/ \E h \in 1..MaxUpdates : AddItemReads(h)
    \/ \E h \in 1..MaxUpdates : LimitReplied(h)
    \/ \E h \in 1..MaxUpdates : SendResolves(h)
    \/ \E h \in 1..MaxUpdates : SendRejects(h)
    \/ \E h \in 1..MaxUpdates : AddItemReplied(h)
    \/ \E h \in 1..MaxUpdates : StartReads(h)
    \/ Tick

SpecBot == InitBot /\ [][NextBot]_vars

(***************************************************************************)
(* The listing and its buttons.  listItems shows each item of a list with  *)
(* a Delete button and, for an item not touched for a day, a Bump button;  *)
(* the callback data of a button is a string, and a press of the button    *)
(* goes to the first bot.action handler whose regular expression finds a   *)
(* match in it.  A button is [to, guid, data]: the user it was shown to,   *)
(* the item of the message it is under, and its data as characters.        *)
(***************************************************************************)
typeChars(ty) ==
    IF ty = "need" THEN <<"n", "e", "e", "d">>
    ELSE <<"r", "e", "s", "o", "u", "r", "c", "e">>

\* `delete_${type}_` and `bump_${type}_`, the text before (\d+) in the
\* regular expressions and before the id in the callback data
patternOf(kind, ty) ==
    (IF kind = "delete" THEN <<"d", "e", "l", "e", "t", "e">> ELSE <<"b", "u", "m", "p">>)
        \o <<"_">> \o typeChars(ty) \o <<"_">>

\* `delete_${type}_${delId}` and `bump_${type}_${item.channelMessageId}`
callbackData(kind, ty, id) == patternOf(kind, ty) \o ToString(id)

isDigit(ch) == \E i \in 1..Len(Digits) : Digits[i] = ch

RECURSIVE digitsAt(_, _)
\* \d+ at place i of s: the digits from there on, as many as there are
digitsAt(s, i) ==
    IF i <= Len(s) /\ isDigit(s[i]) THEN <<s[i]>> \o digitsAt(s, i + 1) ELSE <<>>

\* ctx.match[1] for new RegExp(`${pattern}(\\d+)`): the digits of the
\* leftmost match in data, or nothing when the expression finds no match
capture(pattern, data) ==
    LET found == {i \in 1..Len(data) :
                    /\ i + Len(pattern) - 1 <= Len(data)
                    /\ SubSeq(data, i, i + Len(pattern) - 1) = pattern
                    /\ digitsAt(data, i + Len(pattern)) # <<>>}
    IN  IF found = {}
        THEN <<>>
        ELSE digitsAt(data, (CHOOSE i \in found : \A j \in found : i <= j) + Len(pattern))

RECURSIVE parseInt(_)
\* parseInt(digits, 10)
parseInt(ds) ==
    IF ds = <<>>
    THEN 0
    ELSE parseInt(SubSeq(ds, 1, Len(ds) - 1)) * 10
             + ((CHOOSE i \in 1..Len(Digits) : Digits[i] = ds[Len(ds)]) - 1)

\* The bot.action handlers in the order they are registered
Routes ==
    <<[kind |-> "delete", type |-> "need"], [kind |-> "delete", type |-> "resource"],
      [kind |-> "bump", type |-> "need"], [kind |-> "bump", type |-> "resource"]>>

\* The handlers whose expression matches data
matching(data) ==
    {i \in 1..Len(Routes) : capture(patternOf(Routes[i].kind, Routes[i].type), data) # <<>>}

\* A comparison that is an assignment: true of every item for an id but 0
matchesId_Assigns(it, id) == id # 0

\* it.channelMessageId === msgId
matchesId(it, id) == it.channelMessageId = Num(id)

\* The buttons listItems shows to user u under the items of list, at now
buttonsOf(u, ty, list, now) ==
    {[to |-> u, guid |-> list[k].guid,
      data |-> callbackData("delete", ty, list[k].channelMessageId)] :
        k \in 1..Len(list)}
    \cup
    {[to |-> u, guid |-> list[k].guid,
      data |-> callbackData("bump", ty, list[k].channelMessageId)] :
        k \in {j \in 1..Len(list) :
                 /\ now - list[j].updatedAt >= 24 * 60 * 60 * 1000
                 /\ ToBoolean(list[j].channelMessageId)}}

\* An item whose post to the channel failed when it was created
Unposted(k) == [guid |-> 0 - k, createdAt |-> 0, updatedAt |-> 0, channelMessageId |-> Null]

\* The store the presses explored arrive in: the first user has two
\* published needs and a resource that could not be published, the second
\* user one published need, all of them created a day before
ListedStore ==
    [u \in UserIds |->
        IF u = 5
        THEN [needs |-> <<StoredNeed(1), StoredNeed(2)>>, resources |-> <<Unposted(4)>>]
        ELSE [needs |-> <<StoredNeed(3)>>, resources |-> <<>>]]

\* The buttons there can be: for any user and stored item, Delete or Bump of
\* either type with null or the id of a post made before or by an update
Pressable ==
    {[to |-> u, guid |-> 0 - g, data |-> callbackData(r.kind, r.type, id)] :
        u \in UserIds, g \in 1..4, r \in {Routes[i] : i \in 1..Len(Routes)},
        id \in {Null} \cup {Num(k) : k \in 1..(3 + MaxUpdates)}}

\* The listings explored
Lists ==
    {<<5, "need", "private">>, <<5, "resource", "private">>, <<5, "need", "group">>}

InitButtons ==
    /\ disk = ListedStore
    /\ channel = [k \in 1..3 |-> [guid |-> 0 - k, live |-> TRUE]]
    /\ clock = FirstUpdate
    /\ buttons \in {{}, buttonsOf(5, "need", ListedStore[5].needs, FirstUpdate)}
    /\ pendingActions = <<>>
    /\ handlers = <<>>
    /\ dbData = 0
    /\ users = <<>>
    /\ pc = "idle"
    /\ cursor = 1
    /\ anyUpdated = FALSE
    /\ chat = NoChat
    /\ getChatCalls = <<>>
    /\ editCalls = <<>>
    /\ console = <<>>
    /\ writes = 0
    /\ visits = <<>>
    /\ args = Options(Undefined, Undefined, <<Undefined, Undefined>>, "undefined")
    /\ displayName = <<>>
    /\ link = <<>>
    /\ result = <<>>
    /\ called = TRUE
    /\ error = "none"

\* bot.command(plural) and bot.hears: listItems up to its first await; in a
\* chat that is not private it returns at once
List(u, ty, chatType) ==
    /\ Len(handlers) < MaxUpdates
    /\ handlers' = Append(handlers,
                          Handler("list", u, ty,
                                  IF chatType # "private" THEN "done" ELSE "readDB"))
    /\ UNCHANGED <<disk, clock, pendingActions, dbData, channel, buttons,
                   migrationLocals, mentionVars>>

\* listItems after await storage.readDB(): a reply for each item of the list
ListReads(h) ==
    /\ h \in DOMAIN handlers
    /\ handlers[h].kind = "list"
    /\ handlers[h].pc = "readDB"
    /\ LET u == handlers[h].from
           d == getUserData(disk, u)
       IN  /\ handlers' = Release([handlers EXCEPT ![h].data = d, ![h].pc = "done"], h)
           /\ buttons' = buttons \cup buttonsOf(u, handlers[h].action,
                                                d[u][fieldKey(handlers[h].action)], clock)
    /\ dbData' = h
    /\ UNCHANGED <<disk, clock, pendingActions, channel, migrationLocals, mentionVars>>

\* A user presses a button: the first handler whose expression matches the
\* data runs up to its first await; when none matches, no handler runs
Press(b) ==
    /\ Len(handlers) < MaxUpdates
    /\ b \in buttons
    /\ IF matching(b.data) = {}
       THEN handlers' = Append(handlers, Handler("callback", b.to, "undefined", "done"))
       ELSE LET r == Routes[CHOOSE i \in matching(b.data) :
                               \A j \in matching(b.data) : i <= j]
                id == parseInt(capture(patternOf(r.kind, r.type), b.data))
            IN  handlers' = Append(handlers,
                                   [Handler(r.kind, b.to, r.type, "readDB")
                                       EXCEPT !.msgId = id])
    /\ UNCHANGED <<disk, clock, pendingActions, dbData, channel, buttons,
                   migrationLocals, mentionVars>>

\* The delete handler after await storage.readDB(): _.remove on the user's
\* collection, and 'Not found' or the request to delete the channel message
DeleteReads(h) ==
    /\ h \in DOMAIN handlers
    /\ handlers[h].kind = "delete"
    /\ handlers[h].pc = "readDB"
    /\ LET u == handlers[h].from
           f == fieldKey(handlers[h].action)
           d == getUserData(disk, u)
           removedItems == SelectSeq(d[u][f], LAMBDA it : matchesId(it, handlers[h].msgId))
           kept == SelectSeq(d[u][f], LAMBDA it : ~matchesId(it, handlers[h].msgId))
           mine == [handlers[h] EXCEPT
                       !.data = [d EXCEPT ![u][f] = kept],
                       !.item = IF removedItems = <<>> THEN NoItem ELSE removedItems[1],
                       !.answer = IF removedItems = <<>> THEN "Not found" ELSE "none",
                       !.pc = IF removedItems = <<>> THEN "done" ELSE "deleteMessage"]
       IN  handlers' = Release([handlers EXCEPT ![h] = mine], h)
    /\ dbData' = h
    /\ UNCHANGED <<disk, clock, pendingActions, channel, buttons, migrationLocals,
                   mentionVars>>

\* deleteMessage resolves: the message is gone from the channel; then
\* storage.writeDB(), the edit of the private message and answerCbQuery()
DeleteMessageResolves(h) ==
    /\ h \in DOMAIN handlers
    /\ handlers[h].kind = "delete"
    /\ handlers[h].pc = "deleteMessage"
    /\ handlers[h].msgId \in DOMAIN channel
    /\ channel[handlers[h].msgId].live
    /\ channel' = [channel EXCEPT ![handlers[h].msgId].live = FALSE]
    /\ disk' = dbDataOf(handlers)
    /\ handlers' = Release([handlers EXCEPT ![h].pc = "done", ![h].answer = "answered"],
                           dbData)
    /\ UNCHANGED <<clock, pendingActions, dbData, buttons, migrationLocals, mentionVars>>

\* deleteMessage rejects (the message is gone already, or Telegram refuses):
\* catch (e) {}; then storage.writeDB(), the edit and answerCbQuery()
DeleteMessageRejects(h) ==
    /\ h \in DOMAIN handlers
    /\ handlers[h].kind = "delete"
    /\ handlers[h].pc = "deleteMessage"
    /\ disk' = dbDataOf(handlers)
    /\ handlers' = Release([handlers EXCEPT ![h].pc = "done", ![h].answer = "answered"],
                           dbData)
    /\ UNCHANGED <<clock, pendingActions, dbData, channel, buttons, migrationLocals,
                   mentionVars>>

\* The bump handler after await storage.readDB(): _.find, and 'Not found' or
\* the request to delete the old channel message
BumpReads(h) ==
    /\ h \in DOMAIN handlers
    /\ handlers[h].kind = "bump"
    /\ handlers[h].pc = "readDB"
    /\ LET u == handlers[h].from
           d == getUserData(disk, u)
           found == SelectSeq(d[u][fieldKey(handlers[h].action)],
                              LAMBDA it : matchesId(it, handlers[h].msgId))
           mine == [handlers[h] EXCEPT
                       !.data = d,
                       !.item = IF found = <<>> THEN NoItem ELSE found[1],
                       !.answer = IF found = <<>> THEN "Not found" ELSE "none",
                       !.pc = IF found = <<>> THEN "done"
                              ELSE IF handlers[h].msgId = 0 THEN "send"
                              ELSE "deleteMessage"]
       IN  handlers' = Release([handlers EXCEPT ![h] = mine], h)
    /\ dbData' = h
    /\ UNCHANGED <<disk, clock, pendingActions, channel, buttons, migrationLocals,
                   mentionVars>>

\* deleteMessage of the old post resolves; then the request to post again
BumpDeleteResolves(h) ==
    /\ h \in DOMAIN handlers
    /\ handlers[h].kind = "bump"
    /\ handlers[h].pc = "deleteMessage"
    /\ handlers[h].msgId \in DOMAIN channel
    /\ channel[handlers[h].msgId].live
    /\ channel' = [channel EXCEPT ![handlers[h].msgId].live = FALSE]
    /\ handlers' = [handlers EXCEPT ![h].pc = "send"]
    /\ UNCHANGED <<disk, clock, pendingActions, dbData, buttons, migrationLocals,
                   mentionVars>>

\* deleteMessage of the old post rejects: catch (e) {}; then the request to
\* post again
BumpDeleteRejects(h) ==
    /\ h \in DOMAIN handlers
    /\ handlers[h].kind = "bump"
    /\ handlers[h].pc = "deleteMessage"
    /\ handlers' = [handlers EXCEPT ![h].pc = "send"]
    /\ UNCHANGED <<disk, clock, pendingActions, dbData, channel, buttons,
                   migrationLocals, mentionVars>>

\* The item it of the handler's object, posted again as message id at now
bumped(d, u, f, it, id, now) ==
    [d EXCEPT ![u][f] =
        [k \in 1..Len(@) |->
            IF @[k].guid = it.guid
            THEN [@[k] EXCEPT !.channelMessageId = Num(id), !.updatedAt = now]
            ELSE @[k]]]

\* sendPhoto or sendMessage resolves: the item gets the new message_id and
\* updatedAt, then storage.writeDB(), the edit of the private message, which
\* now has a Delete button for the new id, and answerCbQuery
BumpSendResolves(h) ==
    /\ h \in DOMAIN handlers
    /\ handlers[h].kind = "bump"
    /\ handlers[h].pc = "send"
    /\ channel' = Append(channel, [guid |-> handlers[h].item.guid, live |-> TRUE])
    /\ LET u == handlers[h].from
           mine == [handlers[h] EXCEPT
                       !.data = bumped(@, u, fieldKey(handlers[h].action),
                                       handlers[h].item, Len(channel) + 1, clock),
                       !.answer = "bumped",
                       !.pc = "done"]
           hs == [handlers EXCEPT ![h] = mine]
       IN  /\ disk' = dbDataOf(hs)
           /\ handlers' = Release(hs, dbData)
           /\ buttons' = buttons \cup
                  {[to |-> u, guid |-> handlers[h].item.guid,
                    data |-> callbackData("delete", handlers[h].action,
                                          Num(Len(channel) + 1))]}
    /\ UNCHANGED <<clock, pendingActions, dbData, migrationLocals, mentionVars>>

\* sendPhoto or sendMessage rejects: the handler throws, and ends
BumpSendRejects(h) ==
    /\ h \in DOMAIN handlers
    /\ handlers[h].kind = "bump"
    /\ handlers[h].pc = "send"
    /\ handlers' = Release([handlers EXCEPT ![h].pc = "done", ![h].answer = "thrown"],
                           dbData)
    /\ UNCHANGED <<disk, clock, pendingActions, dbData, channel, buttons,
                   migrationLocals, mentionVars>>

NextButtons ==
    \/ \E l \in Lists : List(l[1], l[2], l[3])
    \/ \E b \in Pressable : Press(b)
    \/ \E u \in Starters : Start(u)
    \/ \E h \in 1..MaxUpdates : ListReads(h)
    \/ \E h \in 1..MaxUpdates : DeleteReads(h)
    \/ \E h \in 1..MaxUpdates : DeleteMessageResolves(h)
    \/ \E h \in 1..MaxUpdates : DeleteMessageRejects(h)
    \/ \E h \in 1..MaxUpdates : BumpReads(h)
    \/ \E h \in 1..MaxUpdates : BumpDeleteResolves(h)
    \/ \E h \in 1..MaxUpdates : BumpDeleteRejects(h)
    \/ \E h \in 1..MaxUpdates : BumpSendResolves(h)
    \/ \E h \in 1..MaxUpdates : BumpSendRejects(h)
    \/ \E h \in 1..MaxUpdates : StartReads(h)

SpecButtons == InitButtons /\ [][NextButtons]_vars

(***************************************************************************)
(* Reading a returned mention back: the parts of the output                *)
(***************************************************************************)
HtmlOpen == <<"<", "a", " ", "h", "r", "e", "f", "=", "\"">>

HtmlClose == <<"<", "/", "a", ">">>

IsPrefix(p, s) == Len(p) <= Len(s) /\ SubSeq(s, 1, Len(p)) = p

IsSuffix(p, s) == Len(p) <= Len(s) /\ SubSeq(s, Len(s) - Len(p) + 1, Len(s)) = p

Min(S) == CHOOSE x \in S : \A y \in S : x <= y

Max(S) == CHOOSE x \in S : \A y \in S : x >= y

\* The positions of the quote that ends the href of <a href="...">label</a>
HrefEnds(out) == {k \in (Len(HtmlOpen) + 1)..Len(out) : out[k] = "\""}

IsHtmlAnchor(out) ==
    /\ IsPrefix(HtmlOpen, out)
    /\ IsSuffix(HtmlClose, out)
    /\ HrefEnds(out) # {}
    /\ Min(HrefEnds(out)) + 1 <= Len(out) - Len(HtmlClose)
    /\ out[Min(HrefEnds(out)) + 1] = ">"

HtmlHref(out) == SubSeq(out, Len(HtmlOpen) + 1, Min(HrefEnds(out)) - 1)

HtmlLabel(out) == SubSeq(out, Min(HrefEnds(out)) + 2, Len(out) - Len(HtmlClose))

\* The positions of "](" in [label](target)
MdMiddles(out) == {k \in 2..(Len(out) - 2) : out[k] = "]" /\ out[k + 1] = "("}

IsMdLink(out) ==
    /\ Len(out) >= 4
    /\ out[1] = "["
    /\ out[Len(out)] = ")"
    /\ MdMiddles(out) # {}

MdTarget(out) == SubSeq(out, Max(MdMiddles(out)) + 2, Len(out) - 1)

MdLabel(out) == SubSeq(out, 2, Max(MdMiddles(out)) - 1)

IsMarkdownMode(a) == a.parseMode \in {"Markdown", "MarkdownV2"}

\* The link and the label as they stand in the output of the call
LinkPart == IF IsMarkdownMode(args) THEN MdTarget(result) ELSE HtmlHref(result)

LabelPart == IF IsMarkdownMode(args) THEN MdLabel(result) ELSE HtmlLabel(result)

WellFormed == IF IsMarkdownMode(args) THEN IsMdLink(result) ELSE IsHtmlAnchor(result)

HasUsername == args.username.t = "string" /\ args.username.s # <<>>

RECURSIVE ParseDecimal(_)
\* The number a string of decimal digits denotes
ParseDecimal(s) ==
    IF s = <<>> THEN 0
    ELSE 10 * ParseDecimal(SubSeq(s, 1, Len(s) - 1))
           + (CHOOSE d \in 0..9 : Digits[d + 1] = s[Len(s)])

(***************************************************************************)
(* C1: for every identity with a non-empty username, in every dialect      *)
(* (HTML, Markdown, MarkdownV2, omitted or unrecognized), the link part of *)
(* the output is exactly https://t.me/<username>, the username copied      *)
(* verbatim, and the id plays no part in the output.                       *)
(***************************************************************************)
C1_UsernameLink ==
    (called /\ HasUsername) =>
        /\ WellFormed
        /\ LinkPart = TMe \o args.username.s
        /\ \A id \in IdValues : buildUserMention([args EXCEPT !.id = id]) = result

C1_Witness ==
    /\ called
    /\ args.username = Str(<<"j", "_", "d">>)
    /\ args.parseMode = "MarkdownV2"
    /\ args.id = Num(7)
    /\ LinkPart = <<"h", "t", "t", "p", "s", ":", "/", "/", "t", ".", "m", "e", "/",
                    "j", "_", "d">>

(***************************************************************************)
(* C2: for every identity without a username, in every dialect, the link   *)
(* part of the output is tg://user?id=<id>; an id given as a number and    *)
(* the same id given as a digit string give identical output.              *)
(***************************************************************************)
C2_IdLink ==
    (called /\ ~ToBoolean(args.username)) =>
        /\ WellFormed
        /\ IsPrefix(TgUser, LinkPart)
        /\ LET idText == SubSeq(LinkPart, Len(TgUser) + 1, Len(LinkPart))
           IN  /\ args.id.t = "string" => idText = args.id.s
               /\ args.id.t = "number" =>
                      /\ idText # <<>>
                      /\ \A k \in 1..Len(idText) : \E d \in 1..10 : Digits[d] = idText[k]
                      /\ Len(idText) > 1 => idText[1] # "0"
                      /\ ParseDecimal(idText) = args.id.n
                      /\ buildUserMention([args EXCEPT !.id = Str(idText)]) = result

C2_Witness ==
    /\ called
    /\ args.username = Undefined
    /\ args.id = Num(120)
    /\ args.parseMode = "Markdown"
    /\ LinkPart = TgUser \o <<"1", "2", "0">>

(***************************************************************************)
(* C3: whenever username is non-empty the display label, before the        *)
(* dialect's escaping, is "@" followed by the username, whatever           *)
(* first_name and last_name contain; the names are used only when          *)
(* username is absent or empty.                                            *)
(***************************************************************************)
C3_UsernameLabel ==
    (called /\ HasUsername) =>
        /\ displayName = <<"@">> \o args.username.s
        /\ buildUserMention([args EXCEPT !.first_name = Undefined,
                                         !.last_name = Undefined]) = result
        /\ args.parseMode = "Markdown" => LabelPart = <<"@">> \o args.username.s

C3_Witness ==
    /\ called
    /\ HasUsername
    /\ args.first_name = Str(<<"a">>)
    /\ args.last_name = Str(<<"b">>)
    /\ args.parseMode = "Markdown"
    /\ result = <<"[", "@", "j", "_", "d", "]", "(">> \o TMe \o <<"j", "_", "d", ")">>

\* The positions of a name that hold no white space
NonWs(s) == {k \in 1..Len(s) : s[k] \notin Whitespace}

\* A name without the white space before its first and after its last other character
Trimmed(s) == IF NonWs(s) = {} THEN <<>> ELSE SubSeq(s, Min(NonWs(s)), Max(NonWs(s)))

\* A name that is given and is more than white space
Survives(v) == v.t = "string" /\ Trimmed(v.s) # <<>>

\* The label the names give: first, then last, one space between
NamesLabel ==
    CASE Survives(args.first_name) /\ Survives(args.last_name) ->
             Trimmed(args.first_name.s) \o <<" ">> \o Trimmed(args.last_name.s)
      [] Survives(args.first_name) /\ ~Survives(args.last_name) ->
             Trimmed(args.first_name.s)
      [] ~Survives(args.first_name) /\ Survives(args.last_name) ->
             Trimmed(args.last_name.s)
      [] OTHER -> <<>>

(***************************************************************************)
(* C4: when username is absent, the label is first_name and last_name,     *)
(* each trimmed of leading and trailing white space, those missing or      *)
(* empty after trimming dropped, the rest joined first-then-last with      *)
(* exactly one space; one surviving name gives that name with no space     *)
(* before or after it; the three dialects render this same label.          *)
(***************************************************************************)
C4_NamesLabel ==
    (called /\ ~ToBoolean(args.username)
        /\ (Survives(args.first_name) \/ Survives(args.last_name))) =>
        /\ displayName = NamesLabel
        /\ displayName[1] \notin Whitespace
        /\ displayName[Len(displayName)] \notin Whitespace
        /\ result = switchParseMode(parseModeOf(args), args.username, NamesLabel, link)
        /\ (args.parseMode = "Markdown" /\ \A k \in 1..Len(NamesLabel) : NamesLabel[k] # "]")
               => LabelPart = NamesLabel

C4_Witness ==
    /\ called
    /\ args.username = Undefined
    /\ args.first_name = Str(<<" ", "a", "\t">>)
    /\ args.last_name = Str(<<"b">>)
    /\ args.parseMode = "MarkdownV2"
    /\ LabelPart = <<"a", " ", "b">>

(***************************************************************************)
(* C5: when username is absent and first_name and last_name are each       *)
(* missing, empty or only white space, the label is the literal unknown:   *)
(* <a href="tg://user?id=ID">unknown</a> in HTML and                       *)
(* [unknown](tg://user?id=ID) in both Markdown dialects.                   *)
(***************************************************************************)
C5_UnknownLabel ==
    (called /\ ~ToBoolean(args.username)
        /\ ~Survives(args.first_name) /\ ~Survives(args.last_name)) =>
        /\ displayName = Unknown
        /\ result =
               IF IsMarkdownMode(args)
               THEN <<"[">> \o Unknown \o <<"]", "(">> \o TgUser \o ToString(args.id)
                        \o <<")">>
               ELSE HtmlOpen \o TgUser \o ToString(args.id) \o <<"\"", ">">>
                        \o Unknown \o HtmlClose

C5_Witness ==
    /\ called
    /\ args.username = Undefined
    /\ args.first_name = Str(<<" ", "\t">>)
    /\ args.last_name = Str(<<>>)
    /\ args.parseMode = "MarkdownV2"
    /\ args.id = Num(7)
    /\ result = <<"[", "u", "n", "k", "n", "o", "w", "n", "]", "(">> \o TgUser
                    \o <<"7", ")">>

(***************************************************************************)
(* Decoders of the dialects' escaping                                      *)
(***************************************************************************)
\* The named entities of the five characters HTML escapes
EntityTable ==
    {[char |-> "&", text |-> <<"&", "a", "m", "p", ";">>],
     [char |-> "<", text |-> <<"&", "l", "t", ";">>],
     [char |-> ">", text |-> <<"&", "g", "t", ";">>],
     [char |-> "\"", text |-> <<"&", "q", "u", "o", "t", ";">>],
     [char |-> "'", text |-> <<"&", "a", "p", "o", "s", ";">>]}

HtmlSpecial == {e.char : e \in EntityTable}

EntityOf(c) == (CHOOSE e \in EntityTable : e.char = c).text

RECURSIVE HtmlDecode(_)
\* An HTML entity decoder: each named entity read as its character, left to right
HtmlDecode(s) ==
    IF s = <<>> THEN <<>>
    ELSE IF \E e \in EntityTable : IsPrefix(e.text, s)
    THEN LET e == CHOOSE e \in EntityTable : IsPrefix(e.text, s)
         IN  <<e.char>> \o HtmlDecode(SubSeq(s, Len(e.text) + 1, Len(s)))
    ELSE <<Head(s)>> \o HtmlDecode(Tail(s))

RECURSIVE EntityLength(_)
\* The length of a text with each of the five characters written as its entity once
EntityLength(s) ==
    IF s = <<>> THEN 0
    ELSE (IF Head(s) \in HtmlSpecial THEN Len(EntityOf(Head(s))) ELSE 1)
             + EntityLength(Tail(s))

RECURSIVE Mdv2Unescape(_)
\* A MarkdownV2 reader: a backslash makes the next character literal
Mdv2Unescape(s) ==
    IF s = <<>> THEN <<>>
    ELSE IF Head(s) = "\\" /\ Len(s) >= 2
    THEN <<s[2]>> \o Mdv2Unescape(SubSeq(s, 3, Len(s)))
    ELSE <<Head(s)>> \o Mdv2Unescape(Tail(s))

RECURSIVE WellEscaped(_)
\* Every reserved character stands right after one backslash added for it
WellEscaped(s) ==
    IF s = <<>> THEN TRUE
    ELSE IF Head(s) = "\\"
    THEN Len(s) >= 2 /\ s[2] \in Mdv2Reserved /\ WellEscaped(SubSeq(s, 3, Len(s)))
    ELSE Head(s) \notin Mdv2Reserved /\ WellEscaped(Tail(s))

\* A text with every c taken out
Without(s, c) == SelectSeq(s, LAMBDA x : x # c)

Occurs(c, s) == \E k \in 1..Len(s) : s[k] = c

(***************************************************************************)
(* C6: in the HTML dialect, for every label derived from the names, each   *)
(* <, >, &, ", ' becomes its named entity exactly once (the & of an entity *)
(* the escaping produced is not escaped again), every other character is   *)
(* unchanged, and decoding the entities of the output label gives back the *)
(* label.                                                                  *)
(***************************************************************************)
C6_HtmlEscape ==
    (called /\ ~IsMarkdownMode(args) /\ ~ToBoolean(args.username)) =>
        /\ IsHtmlAnchor(result)
        /\ HtmlDecode(HtmlLabel(result)) = displayName
        /\ Len(HtmlLabel(result)) = EntityLength(displayName)
        /\ \A k \in 1..Len(HtmlLabel(result)) :
               /\ HtmlLabel(result)[k] \notin (HtmlSpecial \ {"&"})
               /\ HtmlLabel(result)[k] = "&" =>
                      \E e \in EntityTable :
                          IsPrefix(e.text, SubSeq(HtmlLabel(result), k,
                                                  Len(HtmlLabel(result))))

C6_Witness ==
    /\ called
    /\ args.username = Undefined
    /\ args.parseMode = "HTML"
    /\ args.first_name = Str(<<"&", "l", "t", ";">>)
    /\ args.last_name = Str(<<"b">>)
    /\ HtmlLabel(result) = <<"&", "a", "m", "p", ";", "l", "t", ";", " ", "b">>

(***************************************************************************)
(* C7: in the MarkdownV2 dialect every reserved character of the label     *)
(* (_ * [ ] ( ) ~ ` > # + - = | { } . ! and the backslash) is kept and     *)
(* stands in the output right after exactly one added backslash; a label   *)
(* with no reserved character is emitted unchanged.                        *)
(***************************************************************************)
C7_Mdv2Escape ==
    (called /\ args.parseMode = "MarkdownV2") =>
        /\ IsMdLink(result)
        /\ WellEscaped(MdLabel(result))
        /\ Mdv2Unescape(MdLabel(result)) = displayName
        /\ Len(MdLabel(result)) =
               Len(displayName)
                   + Cardinality({k \in 1..Len(displayName) :
                                      displayName[k] \in Mdv2Reserved})
        /\ (\A k \in 1..Len(displayName) : displayName[k] \notin Mdv2Reserved)
               => MdLabel(result) = displayName

C7_Witness ==
    /\ called
    /\ args.username = Undefined
    /\ args.parseMode = "MarkdownV2"
    /\ args.first_name = Str(<<"A", "[", "T", "e", "s", "t", "]", "B">>)
    /\ args.last_name = Undefined
    /\ args.id = Num(7)
    /\ result = <<"[", "A", "\\", "[", "T", "e", "s", "t", "\\", "]", "B", "]", "(">>
                    \o TgUser \o <<"7", ")">>

(***************************************************************************)
(* C8, as the claim states it: in the legacy Markdown dialect the label    *)
(* stands between the leading [ and the ]( of the output unchanged, no     *)
(* character added or removed, for every label, those with [ and ] too.    *)
(***************************************************************************)
C8_LabelUnchanged ==
    (called /\ args.parseMode = "Markdown") =>
        result = <<"[">> \o displayName \o <<"]", "(">> \o link \o <<")">>

(***************************************************************************)
(* C8, amended: in the legacy Markdown dialect a label that holds no ]     *)
(* stands between the leading [ and the ]( of the output unchanged, with   *)
(* no escaping and no character added or removed, an unbalanced or         *)
(* embedded [ included.                                                    *)
(***************************************************************************)
C8_LabelUnchangedWithoutBracket ==
    (called /\ args.parseMode = "Markdown" /\ ~Occurs("]", displayName)) =>
        /\ IsMdLink(result)
        /\ MdLabel(result) = displayName
        /\ result = <<"[">> \o displayName \o <<"]", "(">> \o link \o <<")">>

C8_Witness ==
    /\ called
    /\ args.parseMode = "Markdown"
    /\ args.username = Undefined
    /\ args.first_name = Str(<<"[", "_">>)
    /\ args.last_name = Str(<<"b">>)
    /\ MdLabel(result) = <<"[", "_", " ", "b">>

(***************************************************************************)
(* C9: in the legacy Markdown dialect a label that holds a closing bracket *)
(* ] is rendered with the ] absent from the output, the [ and every other  *)
(* character kept in place (A[Test]B gives [A[TestB](tg://user?id=ID));    *)
(* nothing else of the label is repaired.                                  *)
(***************************************************************************)
C9_ClosingBracketDropped ==
    (called /\ args.parseMode = "Markdown") =>
        /\ IsMdLink(result)
        /\ ~Occurs("]", MdLabel(result))
        /\ MdLabel(result) = Without(displayName, "]")
        /\ result = <<"[">> \o Without(displayName, "]") \o <<"]", "(">> \o link
                        \o <<")">>

C9_Witness ==
    /\ called
    /\ args.parseMode = "Markdown"
    /\ args.username = Undefined
    /\ args.first_name = Str(<<"A", "[", "T", "e", "s", "t", "]", "B">>)
    /\ args.last_name = Undefined
    /\ args.id = Num(120)
    /\ result = <<"[", "A", "[", "T", "e", "s", "t", "B", "]", "(">> \o TgUser
                    \o <<"1", "2", "0", ")">>

(***************************************************************************)
(* C10: for every identity, a call with the dialect omitted, or with any   *)
(* value other than Markdown and MarkdownV2, returns exactly the string    *)
(* the call with dialect HTML returns.                                     *)
(***************************************************************************)
C10_DefaultIsHtml ==
    (called /\ ~IsMarkdownMode(args)) =>
        /\ result = buildUserMention([args EXCEPT !.parseMode = "HTML"])
        /\ IsHtmlAnchor(result)

C10_Witness ==
    /\ called
    /\ args.parseMode = "XML"
    /\ args.username = Undefined
    /\ args.first_name = Str(<<"<">>)
    /\ args.last_name = Undefined
    /\ args.id = Num(7)
    /\ result = HtmlOpen \o TgUser \o <<"7", "\"", ">", "&", "l", "t", ";">> \o HtmlClose

(***************************************************************************)
(* C11: in the HTML dialect, when username is non-empty, the output is     *)
(* exactly <a href="https://t.me/U">@U</a>, the username U written as it   *)
(* is in the label: no character of it becomes an entity.                  *)
(***************************************************************************)
C11_HtmlUsernameLiteral ==
    (called /\ ~IsMarkdownMode(args) /\ HasUsername) =>
        result = HtmlOpen \o TMe \o args.username.s \o <<"\"", ">", "@">>
                     \o args.username.s \o HtmlClose

C11_Witness ==
    /\ called
    /\ args.parseMode = "HTML"
    /\ args.username = Str(<<"x", "&">>)
    /\ args.first_name = Str(<<"<">>)
    /\ HtmlLabel(result) = <<"@", "x", "&">>

(***************************************************************************)
(* C12: in the MarkdownV2 dialect the reserved characters of a username    *)
(* label are escaped as in any other label (each _ becomes \_), while the  *)
(* same username in the link stays unescaped: username j_d gives           *)
(* [@j\_d](https://t.me/j_d).                                              *)
(***************************************************************************)
C12_Mdv2UsernameEscaped ==
    (called /\ args.parseMode = "MarkdownV2" /\ HasUsername) =>
        /\ IsMdLink(result)
        /\ WellEscaped(MdLabel(result))
        /\ Mdv2Unescape(MdLabel(result)) = <<"@">> \o args.username.s
        /\ MdTarget(result) = TMe \o args.username.s
        /\ args.username.s = <<"j", "_", "d">> =>
               result = <<"[", "@", "j", "\\", "_", "d", "]", "(">> \o TMe
                            \o <<"j", "_", "d", ")">>

C12_Witness ==
    /\ called
    /\ args.parseMode = "MarkdownV2"
    /\ args.username = Str(<<"j", "_", "d">>)
    /\ MdLabel(result) = <<"@", "j", "\\", "_", "d">>
    /\ MdTarget(result) = TMe \o <<"j", "_", "d">>

(***************************************************************************)
(* C13, as the claim states it: buildUserMention is total: for every       *)
(* combination of present, absent, empty, white-space-only or non-string   *)
(* values of id, username, first_name and last_name, and every dialect, it *)
(* returns a string and raises no error.                                   *)
(***************************************************************************)
C13_Total ==
    called => (error = "none" /\ WellFormed)

NoSymbol ==
    \A v \in {args.id, args.username, args.first_name, args.last_name} :
        v.t # "symbol"

\* A name that gives the label nothing
Blank(v) == ~ToBoolean(v) \/ (isString(v) /\ Trimmed(v.s) = <<>>)

(***************************************************************************)
(* C13, amended: for every combination of values of id, username,          *)
(* first_name and last_name that are absent, null, strings (empty and      *)
(* white-space-only ones too), numbers or booleans, and every dialect,     *)
(* buildUserMention returns a string and raises no error, and the label is *)
(* unknown when username and both names give nothing.                      *)
(***************************************************************************)
C13_TotalOnPlainValues ==
    (called /\ NoSymbol) =>
        /\ error = "none"
        /\ WellFormed
        /\ (~ToBoolean(args.username) /\ Blank(args.first_name)
               /\ Blank(args.last_name)) => displayName = Unknown

C13_Witness ==
    /\ called
    /\ NoSymbol
    /\ args.username = Num(0)
    /\ args.first_name = Null
    /\ args.last_name = False
    /\ args.id = Undefined
    /\ args.parseMode = "Markdown"
    /\ result = <<"[">> \o Unknown \o <<"]", "(">> \o TgUser
                    \o <<"u", "n", "d", "e", "f", "i", "n", "e", "d", ")">>

(***************************************************************************)
(* What a migration run shows: its requests and its console lines          *)
(***************************************************************************)
\* This step writes one console line, with message msg
Logs(msg) ==
    /\ Len(console') = Len(console) + 1
    /\ console'[Len(console')].msg = msg

\* This step writes the console line of a failed edit, refused with err
LogsEditError(err) ==
    /\ Logs("Failed to migrate message")
    /\ console'[Len(console')].err = err

\* A console line says that an item was migrated
Migrated == \E i \in DOMAIN console : console[i].msg = "Migrated message"

\* The places of the items that have a channel post
Eligible(us) ==
    {k \in 1..Len(Visits(us)) : ToBoolean(itemAt(us, Visits(us)[k]).channelMessageId)}

\* A property of a record, undefined when the record does not have it
Field(r, f) == IF f \in DOMAIN r THEN r[f] ELSE Undefined

(***************************************************************************)
(* C14: during a migration run an item with no channel-post reference      *)
(* (channelMessageId null, 0 or missing) is skipped: no step of the run    *)
(* changes any of its fields, and the step that meets it sends no lookup   *)
(* and no edit request and moves to the next item.                         *)
(***************************************************************************)
C14_SkipsUnposted ==
    [][\A k \in 1..Len(Visits(users)) :
          ~ToBoolean(itemAt(users, Visits(users)[k]).channelMessageId) =>
              /\ itemAt(users', Visits(users)[k]) = itemAt(users, Visits(users)[k])
              /\ (pc = "loop" /\ cursor = k) =>
                     /\ getChatCalls' = getChatCalls
                     /\ editCalls' = editCalls
                     /\ pc' = "loop"
                     /\ cursor' = cursor + 1]_vars

C14_Witness ==
    /\ pc = "done"
    /\ Len(Visits(users)) = 2
    /\ itemAt(users, Visits(users)[1]).channelMessageId = Num(0)
    /\ itemAt(users, Visits(users)[1]) = itemAt(disk, Visits(users)[1])
    /\ Len(getChatCalls) = 1
    /\ Len(editCalls) = 1
    /\ Migrated

\* The limits a caller may pass: migrateUserMentions declares no parameter, so
\* the argument is dropped and a run is the same for each of them
LimitValues == {1, 2}

(***************************************************************************)
(* C15, as the claim states it: a migration run called with limit stops    *)
(* once limit items have been processed: the number of items for which an  *)
(* edit is attempted never exceeds limit.                                  *)
(***************************************************************************)
C15_EditsWithinLimit ==
    \A limit \in LimitValues : Len(editCalls) <= limit

(***************************************************************************)
(* C16: when the identity lookup for an eligible item fails, the migration *)
(* sends no edit request for that item, leaves the store as it is, does    *)
(* not count the item as updated, and goes on to the next item, whose      *)
(* lookup is the next request it sends if that item is eligible.           *)
(***************************************************************************)
C16_LookupFailureSkips ==
    [][/\ (pc = "getChat" /\ Logs("Failed to fetch chat")) =>
              /\ editCalls' = editCalls
              /\ users' = users
              /\ disk' = disk
              /\ anyUpdated' = anyUpdated
              /\ writes' = writes
              /\ pc' = "loop"
              /\ cursor' = cursor + 1
       /\ (AtItem /\ ToBoolean(item.channelMessageId)) =>
              /\ getChatCalls' = Append(getChatCalls, userId)
              /\ pc' = "getChat"]_vars

C16_Witness ==
    /\ pc = "done"
    /\ Len(console) = 3
    /\ console[1].msg = "Failed to fetch chat"
    /\ console[2].msg = "Migrated message"
    /\ Len(getChatCalls) = 2
    /\ Len(editCalls) = 1
    /\ itemAt(users, Visits(users)[1]).updatedAt = 0

(***************************************************************************)
(* C17, as the claim states it: when the edit request for an item fails    *)
(* with a reason indicating that the content is unchanged, the item is     *)
(* treated as migrated: its role field and time stamp are updated and it   *)
(* is counted as updated, so that the store is persisted at the end.       *)
(***************************************************************************)
C17_NotModifiedIsSuccess ==
    [][EditFails(NotModified) =>
          /\ itemAt(users', position) = migratedItem(item, type, chat, clock)
          /\ anyUpdated']_vars

(***************************************************************************)
(* C18: when the edit request for an item fails for a reason other than    *)
(* unchanged content, the item is left exactly as it was (updatedAt and    *)
(* requestor/supplier unchanged, as is the rest of the store), the failure *)
(* does not mark the run as having updated anything or write the store,    *)
(* and the run goes on to the next item.                                   *)
(***************************************************************************)
C18_EditFailureLeavesItem ==
    [][\A err \in EditErrors \ {NotModified} :
          (pc = "edit" /\ LogsEditError(err)) =>
              /\ users' = users
              /\ disk' = disk
              /\ anyUpdated' = anyUpdated
              /\ writes' = writes
              /\ pc' = "loop"
              /\ cursor' = cursor + 1]_vars

C18_Witness ==
    /\ pc = "done"
    /\ Len(console) = 2
    /\ console[1].msg = "Failed to migrate message"
    /\ console[1].err # NotModified
    /\ console[2].msg = "Failed to fetch chat"
    /\ users = disk
    /\ writes = 0
    /\ Len(editCalls) = 1

\* The identity snapshot of the spec's StoredItem, for the chat looked up
Snapshot(c) ==
    [id |-> c.id, username |-> c.username, firstName |-> c.first_name,
     lastName |-> c.last_name]

(***************************************************************************)
(* C19, as the claim states it: when an item's channel message is edited   *)
(* successfully, the migration puts the identity snapshot of the owner     *)
(* looked up (id, username, first and last name) on the item and sets its  *)
(* time stamp, and changes no other field of the item and no other item.   *)
(***************************************************************************)
C19_SnapshotPersisted ==
    [][EditSucceeds =>
          /\ Field(itemAt(users', position), "user") = Snapshot(chat)
          /\ itemAt(users', position).updatedAt = clock
          /\ \A f \in DOMAIN item \ {"user", "updatedAt"} :
                 itemAt(users', position)[f] = item[f]
          /\ \A k \in 1..Len(Visits(users)) :
                 k # cursor =>
                     itemAt(users', Visits(users)[k]) = itemAt(users, Visits(users)[k])]_vars

(***************************************************************************)
(* C20: a migration run writes the store exactly once, after all items     *)
(* have been processed, if at least one item was updated during the run,   *)
(* and performs no write at all when no item was updated (no eligible      *)
(* item, or every lookup or edit failed).                                  *)
(***************************************************************************)
C20_WritesOnceIfUpdated ==
    /\ writes <= 1
    /\ writes = 1 =>
           /\ pc = "done"
           /\ Migrated
           /\ disk = users
    /\ pc = "done" =>
           /\ writes = 1 <=> Migrated
           /\ cursor > Len(Visits(users))
           /\ Len(getChatCalls) = Cardinality(Eligible(users))
    /\ (writes = 0 /\ ~Migrated /\ pc # "readDB") => disk = users

C20_Witness ==
    /\ pc = "done"
    /\ writes = 1
    /\ Len(console) = 3
    /\ console[1].msg = "Migrated message"
    /\ console[2].msg = "Failed to migrate message"
    /\ disk = users
    /\ itemAt(disk, Visits(disk)[1]).updatedAt = 1

\* What the promise of migrateUserMentions resolves to: the function has no
\* return statement
returnValue == Undefined

\* The number of console lines with message msg
RECURSIVE CountLines(_, _)
CountLines(lines, msg) ==
    IF lines = <<>>
    THEN 0
    ELSE (IF Head(lines).msg = msg THEN 1 ELSE 0) + CountLines(Tail(lines), msg)

(***************************************************************************)
(* C21, as the claim states it: the value returned by a migration run      *)
(* equals the number of items that were updated in that run (items whose   *)
(* edit succeeded), and is 0 when none was.                                *)
(***************************************************************************)
C21_ReturnsUpdatedCount ==
    pc = "done" => returnValue = Num(CountLines(console, "Migrated message"))

\* The place of an owner id among the keys of the store, in insertion order
InsertionIndex(id) == CHOOSE u \in DOMAIN OwnerIds : OwnerIds[u] = id

(***************************************************************************)
(* C22, as the claim states it: a migration run visits owners in the order *)
(* in which they were inserted into the store, so the lookup requests it   *)
(* sends follow that order for every store content, owner ids inserted in  *)
(* non-ascending numeric order included.                                   *)
(***************************************************************************)
C22_InsertionOrder ==
    \A i, j \in DOMAIN getChatCalls :
        i < j => InsertionIndex(getChatCalls[i]) <= InsertionIndex(getChatCalls[j])

\* The getChat requests that have neither resolved nor rejected: a lookup that
\* resolves is followed at once by the edit request of its item
OutstandingLookups ==
    Len(getChatCalls) - CountLines(console, "Failed to fetch chat") - Len(editCalls)

\* The edit requests that have neither resolved nor rejected
OutstandingEdits ==
    Len(editCalls) - CountLines(console, "Migrated message")
        - CountLines(console, "Failed to migrate message")

(***************************************************************************)
(* C23: a migration run processes items strictly one after another: at     *)
(* every moment at most one external call (identity lookup or message      *)
(* edit) of the run is outstanding, and a lookup is sent only when the     *)
(* lookup and the edit of every item before it have resolved or rejected.  *)
(***************************************************************************)
C23_OneCallAtATime ==
    [][/\ OutstandingLookups' \in {0, 1}
       /\ OutstandingEdits' \in {0, 1}
       /\ OutstandingLookups' + OutstandingEdits' <= 1
       /\ Len(getChatCalls') > Len(getChatCalls) =>
              OutstandingLookups + OutstandingEdits = 0]_vars

C23_Witness ==
    /\ pc = "getChat"
    /\ Len(getChatCalls) = 2
    /\ Len(editCalls) = 1
    /\ OutstandingLookups = 1
    /\ CountLines(console, "Failed to migrate message") = 1

NeedOf == <<"\n", "\n", "<", "i", ">", "N", "e", "e", "d", " ", "o", "f", " ">>

ResourceProvidedBy ==
    <<"\n", "\n", "<", "i", ">", "R", "e", "s", "o", "u", "r", "c", "e", " ", "p",
      "r", "o", "v", "i", "d", "e", "d", " ", "b", "y", " ">>

\* The text between the prefix and the suffix of s
Between(s, prefix, suffix) == SubSeq(s, Len(prefix) + 1, Len(s) - Len(suffix))

(***************************************************************************)
(* C24: for each eligible item whose lookup resolved the migration sends a *)
(* caption edit if and only if the item has an attached image (fileId) and *)
(* a text edit otherwise, addressed to the item's own channelMessageId in  *)
(* the channel, with content <description>\n\n<i>Need of <mention>.</i>    *)
(* for an item in needs and <description>\n\n<i>Resource provided by       *)
(* <mention>.</i> for an item in resources, <mention> being the HTML       *)
(* mention of the owner looked up.                                         *)
(***************************************************************************)
C24_EditRequest ==
    [][Len(editCalls') > Len(editCalls) =>
          LET call == editCalls'[Len(editCalls')]
              intro == item.description.s
                           \o (IF type = "needs" THEN NeedOf ELSE ResourceProvidedBy)
              outro == <<".", "<", "/", "i", ">">>
              mention == Between(call.content, intro, outro)
          IN  /\ editCalls' = Append(editCalls, call)
              /\ call.method \in {"editMessageCaption", "editMessageText"}
              /\ call.method = "editMessageCaption" <=> item.fileId.t = "string"
              /\ call.chat_id = CHANNEL_USERNAME
              /\ call.message_id = item.channelMessageId
              /\ call.parse_mode = "HTML"
              /\ IsPrefix(intro, call.content)
              /\ IsSuffix(outro, call.content)
              /\ chat'.id = Num(userId)
              /\ IsHtmlAnchor(mention)
              /\ mention = buildUserMention([id |-> chat'.id,
                                             username |-> chat'.username,
                                             first_name |-> chat'.first_name,
                                             last_name |-> chat'.last_name,
                                             parseMode |-> "HTML"])]_vars

C24_Witness ==
    /\ Len(editCalls) = 2
    /\ editCalls[1].method = "editMessageText"
    /\ editCalls[1].message_id = Num(1)
    /\ editCalls[1].content =
           <<"1">> \o ResourceProvidedBy \o HtmlOpen \o TgUser \o <<"3", "\"", ">">>
               \o Unknown \o HtmlClose \o <<".", "<", "/", "i", ">">>
    /\ editCalls[2].method = "editMessageCaption"
    /\ editCalls[2].message_id = Num(2)
    /\ editCalls[2].content =
           <<"2">> \o NeedOf \o HtmlOpen \o TMe \o <<"a", "_", "b", "\"", ">", "@",
           "a", "_", "b">> \o HtmlClose \o <<".", "<", "/", "i", ">">>

(***************************************************************************)
(* A migration run whose steps are taken: the event loop resumes the       *)
(* function after each await, and every request to Telegram or the storage *)
(* resolves or rejects.                                                    *)
(***************************************************************************)
SpecMigrateFair == SpecMigrate /\ WF_vars(NextMigrate)

(***************************************************************************)
(* C27: for every finite store and every pattern of lookup and edit        *)
(* failures a migration run terminates, and no failure aborts the batch:   *)
(* when it ends, a lookup has been sent for every eligible item, those     *)
(* after a failed one included.                                            *)
(***************************************************************************)
C27_Terminates ==
    <>(/\ pc = "done"
       /\ Len(getChatCalls) = Cardinality(Eligible(users))
       /\ Len(getChatCalls) =
              Len(editCalls) + CountLines(console, "Failed to fetch chat")
       /\ Len(editCalls) =
              CountLines(console, "Migrated message")
                  + CountLines(console, "Failed to migrate message"))

C27_Witness ==
    /\ pc = "done"
    /\ Len(console) = 2
    /\ console[1].msg = "Failed to fetch chat"
    /\ console[2].msg = "Failed to migrate message"
    /\ Len(getChatCalls) = 2
    /\ Cardinality(Eligible(users)) = 2

\* A field was given directly: it is neither undefined nor null
Given(v) == v # Undefined /\ v # Null

\* A field of the user object, undefined when there is no object
FromUser(field) == IF args.user.t = "object" THEN args.user[field] ELSE Undefined

\* The options with each field given directly, or else taken from user
MergedFields ==
    [f \in {"id", "username", "first_name", "last_name", "parseMode"} |->
        IF f = "parseMode" THEN args.parseMode
        ELSE IF Given(args[f]) THEN args[f]
        ELSE FromUser(f)]

(***************************************************************************)
(* C25: in the buildUserMention variant that accepts a user object, each   *)
(* of id, username, first_name, last_name given directly overrides the     *)
(* corresponding field of user, and a field not given (undefined or null)  *)
(* is taken from user; the result equals that of calling the function with *)
(* the merged fields alone.                                                *)
(***************************************************************************)
C25_UserObjectMerge ==
    called =>
        /\ result = buildUserMention(MergedFields)
        /\ \A f \in {"id", "username", "first_name", "last_name"} :
               /\ Given(args[f]) => coreFields(args)[f] = args[f]
               /\ ~Given(args[f]) => coreFields(args)[f] = FromUser(f)

C25_Witness ==
    /\ called
    /\ args.user = UserObject(Num(9), Str(<<"b", "o", "b">>), Str(<<"F">>), Undefined)
    /\ args.username = Str(<<>>)
    /\ args.first_name = Null
    /\ args.last_name = Str(<<"d">>)
    /\ args.id = Num(0)
    /\ args.parseMode = "Markdown"
    /\ result = <<"[", "F", " ", "d", "]", "(">> \o TgUser \o <<"0", ")">>

\* Code points outside the Basic Multilingual Plane: the surrogate pair of each
\* and its numeric character reference (U+1F600, U+1F603, U+10000, U+10FFFF)
AstralTable ==
    {[pair |-> <<"U+D83D", "U+DE00">>,
      ref |-> <<"&", "#", "x", "1", "f", "6", "0", "0", ";">>],
     [pair |-> <<"U+D83D", "U+DE03">>,
      ref |-> <<"&", "#", "x", "1", "f", "6", "0", "3", ";">>],
     [pair |-> <<"U+D800", "U+DC00">>,
      ref |-> <<"&", "#", "x", "1", "0", "0", "0", "0", ";">>],
     [pair |-> <<"U+DBFF", "U+DFFF">>,
      ref |-> <<"&", "#", "x", "1", "0", "f", "f", "f", "f", ";">>]}

IsSurrogate(c) == \E a \in AstralTable : c = a.pair[1] \/ c = a.pair[2]

RECURSIVE ExpectedHtml(_)
\* A label as HTML wants it: a reference for each pair, an entity for each
\* markup character, every other character as it is
ExpectedHtml(s) ==
    IF s = <<>> THEN <<>>
    ELSE IF \E a \in AstralTable : IsPrefix(a.pair, s)
    THEN (CHOOSE a \in AstralTable : IsPrefix(a.pair, s)).ref
             \o ExpectedHtml(SubSeq(s, 3, Len(s)))
    ELSE IF Head(s) \in HtmlSpecial
    THEN EntityOf(Head(s)) \o ExpectedHtml(Tail(s))
    ELSE <<Head(s)>> \o ExpectedHtml(Tail(s))

(***************************************************************************)
(* C26: in the HTML dialect every code point of the label outside the      *)
(* Basic Multilingual Plane is written as one numeric character reference  *)
(* &#x<hex>; for the code point (not one for each surrogate half), its     *)
(* value in lower-case hexadecimal, U+1F600 giving &#x1f600;; in both      *)
(* Markdown dialects the same code points are written as they are.         *)
(***************************************************************************)
C26_AstralCodePoints ==
    (called /\ ~ToBoolean(args.username)) =>
        CASE args.parseMode = "Markdown" ->
                 MdLabel(result) = Without(NamesLabel, "]")
          [] args.parseMode = "MarkdownV2" ->
                 /\ Mdv2Unescape(MdLabel(result)) = NamesLabel
                 /\ SelectSeq(MdLabel(result), IsSurrogate)
                        = SelectSeq(NamesLabel, IsSurrogate)
          [] OTHER ->
                 /\ HtmlLabel(result) = ExpectedHtml(NamesLabel)
                 /\ \A k \in 1..Len(result) : ~IsSurrogate(result[k])

C26_Witness ==
    /\ called
    /\ args.username = Undefined
    /\ args.parseMode = "HTML"
    /\ args.first_name = Str(<<"U+D83D", "U+DE00", "U+D83D", "U+DE03">>)
    /\ args.last_name = Undefined
    /\ HtmlLabel(result) = <<"&", "#", "x", "1", "f", "6", "0", "0", ";",
                             "&", "#", "x", "1", "f", "6", "0", "3", ";">>

(***************************************************************************)
(* The bot's handlers: what the store and the channel hold                 *)
(***************************************************************************)
\* The items of list ty of user u in the store d
Stored(d, u, ty) == IF u \in DOMAIN d THEN d[u][fieldKey(ty)] ELSE <<>>

\* How many of them were created within the 24 hours before now
CreatedLastDay(d, u, ty, now) ==
    Cardinality({k \in 1..Len(Stored(d, u, ty)) :
                    Stored(d, u, ty)[k].createdAt >= now - 24 * 60 * 60 * 1000})

\* The item of handler h lies in a list of the store d
Holds(d, h) ==
    \E u \in DOMAIN d : \E f \in {"needs", "resources"} :
        \E k \in 1..Len(d[u][f]) : d[u][f][k].guid = h

\* Handler h has a post in the channel
Posted(h) == \E k \in 1..Len(channel) : channel[k].guid = h

\* C28: for every user and each type, the file and every object read from it
\* hold at most 3 items of that type the user created within the last 24
\* hours, however the add handlers interleave; and a handler that found 3 or
\* more such items has no item, none of its own in the store, and no post in
\* the channel
C28_DailyLimit ==
    /\ \A u \in UserIds : \A ty \in {"need", "resource"} :
          /\ CreatedLastDay(disk, u, ty, clock) <= 3
          /\ \A h \in DOMAIN handlers :
                CreatedLastDay(handlers[h].data, u, ty, clock) <= 3
    /\ \A h \in DOMAIN handlers :
          handlers[h].kind = "message" /\ handlers[h].recent >= 3
              => /\ handlers[h].item = NoItem
                 /\ ~Holds(disk, h)
                 /\ \A g \in DOMAIN handlers : ~Holds(handlers[g].data, h)
                 /\ ~Posted(h)

\* Two add handlers of one user interleave: the first stored the third need
\* of the day and waits for its reply to be sent, the second found 3 and was
\* refused
C28_Witness ==
    \E h, g \in DOMAIN handlers :
        /\ handlers[h].kind = "message" /\ handlers[g].kind = "message"
        /\ handlers[h].from = 5 /\ handlers[g].from = 5
        /\ handlers[h].pc = "reply"
        /\ handlers[h].recent = 2
        /\ Holds(disk, h)
        /\ CreatedLastDay(disk, 5, "need", clock) = 3
        /\ handlers[g].recent = 3
        /\ handlers[g].pc = "done"

\* No handler is at an await
AllFinished == \A h \in DOMAIN handlers : handlers[h].pc = "done"

\* Handler h pushed its item after its request to post it settled
Pushed(h) ==
    /\ handlers[h].kind = "message"
    /\ handlers[h].item # NoItem
    /\ handlers[h].item.channelMessageId # Undefined

\* C29: once all handlers have finished, the file holds every item a handler
\* pushed after its channel post, whatever reads of the store other handlers
\* made in between
C29_NoLostUpdate ==
    AllFinished => \A h \in DOMAIN handlers : Pushed(h) => Holds(disk, h)

\* Every item a handler made and every post a handler made comes from the
\* handler of a message whose sender had a pending action, and the item lies
\* in the sender's list of the pending type; the handler of a message whose
\* sender had none has ended without an item
FromPrompted(hs, d, ch) ==
    /\ \A u \in DOMAIN d : \A f \in {"needs", "resources"} :
          \A k \in 1..Len(d[u][f]) :
              LET g == d[u][f][k].guid
              IN  g > 0
                      => /\ g \in DOMAIN hs
                         /\ hs[g].kind = "message"
                         /\ hs[g].from = u
                         /\ hs[g].action \in {"need", "resource"}
                         /\ f = (IF hs[g].action = "need" THEN "needs" ELSE "resources")
    /\ \A k \in DOMAIN ch :
          ch[k].guid > 0
              => /\ ch[k].guid \in DOMAIN hs
                 /\ hs[ch[k].guid].kind = "message"
                 /\ hs[ch[k].guid].action \in {"need", "resource"}
    /\ \A h \in DOMAIN hs :
          hs[h].kind = "message" /\ hs[h].action = "undefined"
              => hs[h].pc = "done" /\ hs[h].item = NoItem

\* pendingActions[u], or "undefined"
PendingOf(p, u) == IF u \in DOMAIN p THEN p[u] ELSE "undefined"

C30_WitnessUnprompted ==
    \E h \in DOMAIN handlers :
        /\ handlers[h].kind = "message"
        /\ handlers[h].from = 3
        /\ handlers[h].action = "undefined"
        /\ handlers[h].pc = "done"

\* A prompt of user u arrived after update h and before update g
PromptedBetween(u, h, g) ==
    \E p \in DOMAIN handlers :
        h < p /\ p < g /\ handlers[p].kind = "prompt" /\ handlers[p].from = u

\* The pending action is gone when addItem has stored an item or refused it
\* for the daily limit, and is as it was when addItem rejected the input
C31_PendingClearedOrKept ==
    [][/\ \A h \in DOMAIN handlers :
             /\ handlers[h].kind = "message"
             /\ handlers[h].pc \in {"reply", "limitReply"}
             /\ handlers'[h].pc = "done"
             => handlers[h].from \notin DOMAIN pendingActions'
       /\ /\ Len(handlers') = Len(handlers) + 1
          /\ handlers'[Len(handlers')].kind = "message"
          /\ handlers'[Len(handlers')].action # "undefined"
          /\ handlers'[Len(handlers')].pc = "done"
          => pendingActions' = pendingActions]_vars

\* C31: a user's messages make at most one item after one prompt: of two
\* items made and pushed for messages of one user, the later message came
\* after a new prompt of that user, however the handlers interleave
C31_OnePromptOneItem ==
    \A h, g \in DOMAIN handlers :
        /\ h < g
        /\ Pushed(h) /\ Pushed(g)
        /\ handlers[h].from = handlers[g].from
        => PromptedBetween(handlers[h].from, h, g)

(***************************************************************************)
(* The buttons: what a press deletes, bumps and leaves alone               *)
(***************************************************************************)
\* The item it is among the items of list
Among(it, list) == \E k \in 1..Len(list) : list[k].guid = it.guid

\* The items of list whose channelMessageId is not the number id
Others(list, id) ==
    SelectSeq(list, LAMBDA it : ~(it.channelMessageId.t = "number"
                                  /\ it.channelMessageId.n = id))

\* C32: when a delete handler has read the store, its object differs from
\* the file only in the sender's list of the addressed type, which lost
\* exactly the items whose channelMessageId is the id of the callback; when
\* there is none the handler answers 'Not found' and ends, and the channel
\* and the file are as before; and an item leaves the file only when a
\* delete handler of its owner, for its type and its channelMessageId, has
\* removed it
C32_DeleteFrame ==
    [][/\ \A h \in DOMAIN handlers :
             /\ handlers[h].kind = "delete"
             /\ handlers[h].pc = "readDB"
             /\ handlers'[h].pc # "readDB"
             => /\ \A u \in UserIds : \A ty \in {"need", "resource"} :
                      Stored(handlers'[h].data, u, ty)
                          = IF u = handlers[h].from /\ ty = handlers[h].action
                            THEN Others(Stored(disk, u, ty), handlers[h].msgId)
                            ELSE Stored(disk, u, ty)
                /\ Others(Stored(disk, handlers[h].from, handlers[h].action),
                          handlers[h].msgId)
                       = Stored(disk, handlers[h].from, handlers[h].action)
                   => /\ handlers'[h].answer = "Not found"
                      /\ handlers'[h].pc = "done"
                      /\ channel' = channel
                      /\ disk' = disk
       /\ \A u \in UserIds : \A ty \in {"need", "resource"} :
             \A k \in 1..Len(Stored(disk, u, ty)) :
                 ~Among(Stored(disk, u, ty)[k], Stored(disk', u, ty))
                     => \E h \in DOMAIN handlers' :
                            /\ handlers'[h].kind = "delete"
                            /\ handlers'[h].pc # "readDB"
                            /\ handlers'[h].from = u
                            /\ handlers'[h].action = ty
                            /\ Stored(disk, u, ty)[k].channelMessageId
                                   = Num(handlers'[h].msgId)]_vars

\* The first user pressed Delete under the first need twice: the first
\* handler removed it from the file and the channel, the second answered
\* 'Not found'; the other need, the resource and the other user's need are
\* in the file, and their posts in the channel
C32_Witness ==
    \E h, g \in DOMAIN handlers :
        /\ handlers[h].kind = "delete" /\ handlers[h].answer = "answered"
        /\ handlers[h].from = 5 /\ handlers[h].msgId = 1
        /\ handlers[g].kind = "delete" /\ handlers[g].answer = "Not found"
        /\ handlers[g].from = 5 /\ handlers[g].msgId = 1
        /\ disk[5].needs = <<StoredNeed(2)>>
        /\ disk[5].resources = ListedStore[5].resources
        /\ disk[3] = ListedStore[3]
        /\ ~channel[1].live /\ channel[2].live /\ channel[3].live

\* The live posts of the item with this guid: the messages the bot posted
\* for it and has not deleted
LivePosts(guid) == {k \in 1..Len(channel) : channel[k].guid = guid /\ channel[k].live}

\* A bump handler that found its item has ended, by its answer or by a throw
BumpEnded(h) ==
    /\ handlers[h].kind = "bump"
    /\ handlers[h].pc = "done"
    /\ handlers[h].answer \in {"bumped", "thrown"}

\* C33: once the handlers have ended, an item of the file that a bump handler
\* bumped, or failed to bump, has exactly one live post in the channel, and
\* its channelMessageId is the id of that post
C33_BumpKeepsOneLivePost ==
    AllFinished
        => \A h \in DOMAIN handlers :
               BumpEnded(h)
                   => \A k \in 1..Len(Stored(disk, handlers[h].from, handlers[h].action)) :
                          LET it == Stored(disk, handlers[h].from, handlers[h].action)[k]
                          IN  it.guid = handlers[h].item.guid
                                  => /\ Cardinality(LivePosts(it.guid)) = 1
                                     /\ \E m \in LivePosts(it.guid) :
                                            it.channelMessageId = Num(m)

\* A press of the button b reaches the delete handler of type ty, and the
\* msgId the handler parses from the data is the channelMessageId of it
Selects(b, ty, it) ==
    /\ matching(b.data) # {}
    /\ LET r == Routes[CHOOSE i \in matching(b.data) : \A j \in matching(b.data) : i <= j]
       IN  /\ r.kind = "delete"
           /\ r.type = ty
           /\ it.channelMessageId
                  = Num(parseInt(capture(patternOf("delete", ty), b.data)))

\* C34: when listItems has shown a list, every item of the list has a button
\* under it whose press reaches the delete handler of the list's type with
\* the item's channelMessageId, so that the handler finds the item
C34_DeleteButtonSelects ==
    [][\A h \in DOMAIN handlers :
           /\ handlers[h].kind = "list"
           /\ handlers[h].pc = "readDB"
           /\ handlers'[h].pc = "done"
           => \A k \in 1..Len(Stored(disk, handlers[h].from, handlers[h].action)) :
                  LET it == Stored(disk, handlers[h].from, handlers[h].action)[k]
                  IN  \E b \in buttons' :
                          /\ b.to = handlers[h].from
                          /\ b.guid = it.guid
                          /\ Selects(b, handlers[h].action, it)]_vars

====
